---- MODULE Spec2Model ----
(***************************************************************************)
(* A model of the bidirectional grammar engine: the weighted Earley chart  *)
(* parser (src/src/parser.rs), the memoising generator                     *)
(* (src/src/nlu/generator.rs), the tense-driven corrector                  *)
(* (src/src/nlu/corrector.rs, src/src/nlu/tense.rs) and the payload        *)
(* templates (src/src/payload).                                            *)
(***************************************************************************)
EXTENDS Integers, Sequences, FiniteSets, TLC

VARIABLES
  grammar,    \* parser: name of the grammar being parsed with
  tokens,     \* parser: the lexed input, a sequence of Tokens
  options,    \* parser: Options {skip_count, skip_penalty}
  states,     \* parser: Chart.states, the arena of State records
  column,     \* parser: Chart.column
  wanted,     \* parser: Chart.wanted
  skipped,    \* parser: Chart.skipped (ring buffers)
  pc,         \* parser: "parse" while tokens remain, then "done"
  result,     \* parser: the Option<Derivation> returned by parse
  t_template, \* templates: the template under use (its source text)
  t_x,        \* templates: the payload value given to split
  t_args,     \* templates: the Vec<Args> returned by split
  t_at,       \* templates: how many of t_args were merged back
  t_merged,   \* templates: the value returned by the last merge
  t_pc,       \* templates: "split", then "merge", or "idle"
  g_grammar,  \* generator: the grammar in use, {name, deepness}
  g_value,    \* generator: the value asked for
  g_memo,     \* generator: State.memo
  g_given,    \* generator: the memo given to generate_from_rules
  g_rng,      \* generator: the state of the random source
  g_stack,    \* generator: the frames of the recursion, innermost last
  g_ret,      \* generator: what the innermost call just returned
  g_pc,       \* generator: "run", then "done", or "idle"
  g_result,   \* generator: the Option<Derivation> returned by generate
  c_tree,     \* corrector: the derivation given to correct
  c_seed,     \* corrector: the seed of the random source
  c_build,    \* corrector: "debug" or "release"
  c_first,    \* corrector: the Correction of the first call
  c_second,   \* corrector: the Correction of the call on the first's tree
  c_pc,       \* corrector: "first", "second", then "done", or "idle"
  r_rule,     \* rule semantics: the RuleNode that process_rules compiled
  r_x,        \* rule semantics: the Option<T> handed to the split callback
  r_found,    \* rule semantics: how template.split ended inside the split callback
  r_split,    \* rule semantics: how the split callback ended
  r_merged,   \* rule semantics: how the merge callback ended
  r_pc,       \* rule semantics: "split", "merge", then "done", or "idle"
  u_given,    \* tense: self before the call of union_checked
  u_self,     \* tense: self, overwritten by union_checked
  u_others,   \* tense: the candidates given to union_checked
  u_errors,   \* tense: the strings union_checked returned
  u_pc,       \* tense: "call", then "done", or "idle"
  v_grammar,  \* validate: the grammar given to validate
  v_result,   \* validate: the Result validate returned
  v_pc,       \* validate: "call", then "done", or "idle"
  i_table,    \* interner: MAP, the strings interned so far in the order of their ids
  i_before,   \* interner: MAP before the last call of Interned::new
  i_value,    \* interner: the string given to the last call
  i_result,   \* interner: the Result the last call returned
  i_returned, \* interner: every (string, id) a call has returned
  i_pc,       \* interner: "ready", or "idle"
  p_kind,     \* payloads: "lambda" or "json"
  p_x,        \* payloads: the payload written and read back
  p_y,        \* payloads: a payload to compare with p_x
  p_text,     \* payloads: x.repr()
  p_other,    \* payloads: y.repr()
  p_parsed,   \* payloads: the Result of parse on p_text
  p_pc        \* payloads: "stringify", "parse", then "done", or "idle"

parser_vars == <<grammar, tokens, options, states, column, wanted, skipped, pc, result>>
template_vars == <<t_template, t_x, t_args, t_at, t_merged, t_pc>>
generator_vars == <<g_grammar, g_value, g_memo, g_given, g_rng, g_stack, g_ret, g_pc, g_result>>
corrector_vars == <<c_tree, c_seed, c_build, c_first, c_second, c_pc>>
rule_vars == <<r_rule, r_x, r_found, r_split, r_merged, r_pc>>
tense_vars == <<u_given, u_self, u_others, u_errors, u_pc>>
validate_vars == <<v_grammar, v_result, v_pc>>
interner_vars == <<i_table, i_before, i_value, i_result, i_returned, i_pc>>
payload_vars == <<p_kind, p_x, p_y, p_text, p_other, p_parsed, p_pc>>
vars == <<parser_vars, template_vars, generator_vars, corrector_vars, rule_vars, tense_vars, validate_vars, interner_vars, payload_vars>>
not_parser == <<template_vars, generator_vars, corrector_vars, rule_vars, tense_vars, validate_vars, interner_vars, payload_vars>>
not_template == <<parser_vars, generator_vars, corrector_vars, rule_vars, tense_vars, validate_vars, interner_vars, payload_vars>>
not_generator == <<parser_vars, template_vars, corrector_vars, rule_vars, tense_vars, validate_vars, interner_vars, payload_vars>>
not_corrector == <<parser_vars, template_vars, generator_vars, rule_vars, tense_vars, validate_vars, interner_vars, payload_vars>>
not_rule == <<parser_vars, template_vars, generator_vars, corrector_vars, tense_vars, validate_vars, interner_vars, payload_vars>>
not_tense == <<parser_vars, template_vars, generator_vars, corrector_vars, rule_vars, validate_vars, interner_vars, payload_vars>>
not_validate == <<parser_vars, template_vars, generator_vars, corrector_vars, rule_vars, tense_vars, interner_vars, payload_vars>>
not_interner == <<parser_vars, template_vars, generator_vars, corrector_vars, rule_vars, tense_vars, validate_vars, payload_vars>>
not_payload == <<parser_vars, template_vars, generator_vars, corrector_vars, rule_vars, tense_vars, validate_vars, interner_vars>>

(***************************************************************************)
(* Bounds of the model.                                                    *)
(***************************************************************************)
MaxTokens == 4
MaxSkip == 2

(***************************************************************************)
(* Small helpers over finite maps (hash maps of the source).               *)
(***************************************************************************)
NEG_INFINITY == -1000000
Null == 0

Get(map, k, default) == IF k \in DOMAIN map THEN map[k] ELSE default
Put(map, k, v) == [x \in (DOMAIN map) \cup {k} |-> IF x = k THEN v ELSE map[x]]
EmptyMap == [x \in {} |-> 0]

RECURSIVE SumSeq(_)
SumSeq(s) == IF s = <<>> THEN 0 ELSE Head(s) + SumSeq(Tail(s))

RECURSIVE Concat(_)
Concat(s) == IF s = <<>> THEN <<>> ELSE Head(s) \o Concat(Tail(s))

Reverse(s) == [i \in 1..Len(s) |-> s[Len(s) + 1 - i]]

Max2(a, b) == IF a >= b THEN a ELSE b
Min2(a, b) == IF a <= b THEN a ELSE b

(***************************************************************************)
(* Grammar data model (src/src/grammar.rs).                                *)
(***************************************************************************)
Symbol(x) == [kind |-> "Symbol", id |-> x, name |-> ""]
Terminal(s) == [kind |-> "Terminal", id |-> 0, name |-> s]

\* A Rule with its merge semantics: callback (as a tag) and score.
Rule(lhs, rhs, callback, score) ==
  [lhs |-> lhs, rhs |-> rhs, callback |-> callback, score |-> score]

Join == [op |-> "join", k |-> 0]
Const(v) == [op |-> "const", k |-> v]
Arg(i) == [op |-> "arg", k |-> i]
AddArgs == [op |-> "add", k |-> 0]

\* tests::scoring_works: $Root $As $Bs $Neither $A $B are symbols 0..5.
ScoringRules == <<
  Rule(0, <<Symbol(1)>>, Join, 0),
  Rule(0, <<Symbol(2)>>, Join, 0),
  Rule(0, <<Symbol(3)>>, Join, 0),
  Rule(1, <<Symbol(1), Symbol(4)>>, Join, 0),
  Rule(1, <<>>, Join, 0),
  Rule(4, <<Terminal("a")>>, Const(<<"a">>), 1),
  Rule(4, <<Terminal("%ch")>>, Join, -1),
  Rule(2, <<Symbol(2), Symbol(5)>>, Join, 0),
  Rule(2, <<>>, Join, 0),
  Rule(5, <<Terminal("b")>>, Const(<<"b">>), 1),
  Rule(5, <<Terminal("%ch")>>, Join, -1),
  Rule(3, <<Symbol(3), Terminal("%ch")>>, Join, 0),
  Rule(3, <<>>, Join, 0) >>

\* tests::skipping_works: $Root $Add $Num $Whitespace are symbols 0..3.
SkippingRules == <<
  Rule(0, <<Symbol(1), Symbol(3)>>, Arg(1), 0),
  Rule(1, <<Symbol(2)>>, Arg(1), 0),
  Rule(1, <<Symbol(1), Terminal("+"), Symbol(2)>>, AddArgs, 0),
  Rule(2, <<Terminal("1")>>, Const(1), 0),
  Rule(2, <<Terminal("2")>>, Const(2), 0),
  Rule(2, <<Terminal("3")>>, Const(3), 0),
  Rule(3, <<Symbol(3), Terminal(" ")>>, Const(0), 0),
  Rule(3, <<>>, Const(0), 0) >>

\* A grammar with several empty derivations of one symbol, a rule the
\* parser must ignore (merge score -inf) and scored lexer matches:
\* $Root -> $S $Y $S | $S x $S, $S -> (empty) | $X, $X -> (empty) | x,
\* $Y -> (empty).
NullableRules == <<
  Rule(0, <<Symbol(1), Symbol(3), Symbol(1)>>, Join, 0),
  Rule(0, <<Symbol(1), Terminal("y"), Symbol(1)>>, Join, 0),
  Rule(1, <<>>, Const(<<"e">>), 1),
  Rule(1, <<Symbol(2)>>, Join, 0),
  Rule(2, <<>>, Const(<<"n">>), 3),
  Rule(2, <<Terminal("x")>>, Const(<<"x">>), 0),
  Rule(3, <<>>, Join, 0),
  Rule(0, <<Terminal("x")>>, Const(<<"!">>), NEG_INFINITY) >>

\* Grammars with recursion: the start symbol on a right-hand side
\* ($Root -> $Root a | a), a unit cycle ($Root -> $A, $A -> $A | a), left
\* recursion behind a nullable symbol ($Root -> $N $Root b | b, $N -> (empty))
\* and a unit cycle on a nullable symbol ($Root -> $A b, $A -> $A | (empty)).
RecursiveRules == <<
  Rule(0, <<Symbol(0), Terminal("a")>>, Join, 0),
  Rule(0, <<Terminal("a")>>, Const(<<"a">>), 1) >>
CycleRules == <<
  Rule(0, <<Symbol(1)>>, Join, 0),
  Rule(1, <<Symbol(1)>>, Join, 0),
  Rule(1, <<Terminal("a")>>, Const(<<"a">>), 1) >>
LeftNullRules == <<
  Rule(0, <<Symbol(1), Symbol(0), Terminal("b")>>, Join, 0),
  Rule(0, <<Terminal("b")>>, Const(<<"b">>), 1),
  Rule(1, <<>>, Join, 0) >>
NullCycleRules == <<
  Rule(0, <<Symbol(1), Terminal("b")>>, Join, 0),
  Rule(1, <<Symbol(1)>>, Join, 0),
  Rule(1, <<>>, Join, 0) >>

GrammarNames == {"scoring", "skipping", "nullable"}
RecursiveNames == {"recursive", "cycle", "leftnull", "nullcycle"}

Grammar(name) ==
  CASE name = "scoring" -> [names |-> 6, rules |-> ScoringRules, start |-> 0, default |-> <<>>]
    [] name = "skipping" -> [names |-> 4, rules |-> SkippingRules, start |-> 0, default |-> 0]
    [] name = "nullable" -> [names |-> 4, rules |-> NullableRules, start |-> 0, default |-> <<>>]
    [] name = "recursive" -> [names |-> 1, rules |-> RecursiveRules, start |-> 0, default |-> <<>>]
    [] name = "cycle" -> [names |-> 2, rules |-> CycleRules, start |-> 0, default |-> <<>>]
    [] name = "leftnull" -> [names |-> 2, rules |-> LeftNullRules, start |-> 0, default |-> <<>>]
    [] name = "nullcycle" -> [names |-> 2, rules |-> NullCycleRules, start |-> 0, default |-> <<>>]

(***************************************************************************)
(* Lexers.  CharacterLexer (parser.rs tests) gives every character the     *)
(* keys {text, "%ch"} with score 0; the weighted lexer of the "nullable"   *)
(* grammar scores its keys like a dictionary lexer does.                   *)
(***************************************************************************)
\* A Match is identified, as by its address in the source, by the token
\* position and the key it is stored under.
Match(score, value, token, key) ==
  [score |-> score, value |-> value, token |-> token, key |-> key]

CharacterLexer(name, text, pos) ==
  [text |-> text,
   matches |-> [k \in {text, "%ch"} |-> Match(0, Grammar(name).default, pos, k)]]

WeightedLexer(name, text, pos) ==
  [text |-> text,
   matches |-> [k \in {text, "%ch"} |->
                  Match(IF k = "x" THEN 2 ELSE IF k = "y" THEN -1 ELSE 0,
                        Grammar(name).default, pos, k)]]

Alphabet(name) ==
  CASE name = "scoring" -> {"a", "b", "?"}
    [] name = "skipping" -> {"1", "+", "?"}
    [] name = "nullable" -> {"x", "y", "?"}
    [] name \in RecursiveNames -> {"a", "b"}

\* Lexer::lex: one Token per character of the input.
lex(name, input) ==
  [i \in 1..Len(input) |->
     IF name = "nullable" THEN WeightedLexer(name, input[i], i)
     ELSE CharacterLexer(name, input[i], i)]

(***************************************************************************)
(* IndexedGrammar (parser.rs, index): rules with finite merge score,       *)
(* grouped by lhs, each with the cursor position at which it starts.       *)
(***************************************************************************)
RECURSIVE index_loop(_, _, _, _)
index_loop(rules, i, idx, by_name) ==
  IF i > Len(rules) THEN [by_name |-> by_name, max_index |-> idx]
  ELSE LET rule == rules[i] IN
       IF rule.score > NEG_INFINITY
       THEN LET indexed == [callback |-> rule.callback, index |-> idx, lhs |-> rule.lhs,
                            rhs |-> rule.rhs, rule |-> i, score |-> rule.score]
            IN index_loop(rules, i + 1, idx + Len(rule.rhs) + 1,
                          [by_name EXCEPT ![rule.lhs] = Append(@, indexed)])
       ELSE index_loop(rules, i + 1, idx, by_name)

index(g) ==
  LET r == index_loop(g.rules, 1, 0, [n \in 0..(g.names - 1) |-> <<>>])
  IN [by_name |-> r.by_name, max_index |-> r.max_index, names |-> g.names, start |-> g.start]

(***************************************************************************)
(* State and Candidate (parser.rs).  Pointers into the arenas are indices  *)
(* into the sequence "states"; a candidate list is the sequence of its     *)
(* links, head first.                                                      *)
(***************************************************************************)
NoMatch == [score |-> 0, value |-> <<>>, token |-> 0, key |-> ""]

State_new(cursor, rule, start) ==
  [candidate |-> <<>>, cursor |-> cursor, next |-> Null, rule |-> rule,
   score |-> NEG_INFINITY, start |-> start]

Leaf(m) == [leaf |-> TRUE, match |-> m, state |-> Null]
Node(p) == [leaf |-> FALSE, match |-> NoMatch, state |-> p]

\* Arena::alloc on Chart.states: the new pointer is the new length.
alloc(c, state) == [c EXCEPT !.states = Append(@, state)]

\* Chart::advance_state: find or create the state one past "state" in the
\* current column and push a candidate {down: next, prev: state} onto it.
advance_state(ig, c, next, state) ==
  LET st == c.states[state]
      idx == st.start * ig.max_index + st.rule.index + st.cursor + 1
      fresh == Get(c.column.lookup, idx, Null) = Null
      c1 == IF fresh
            THEN LET a == alloc(c, State_new(st.cursor + 1, st.rule, st.start))
                     p == Len(a.states)
                 IN [a EXCEPT !.column.lookup = Put(@, idx, p),
                              !.column.states = Append(@, p)]
            ELSE c
      entry == c1.column.lookup[idx]
      candidate == [down |-> next, prev |-> state]
  IN [c1 EXCEPT !.states[entry].candidate = <<candidate>> \o @]

\* The completion fan-out of fill_column: walk the "next" list of wanted.
RECURSIVE fan_out(_, _, _, _)
fan_out(ig, c, state, current) ==
  IF current = Null THEN c
  ELSE fan_out(ig, advance_state(ig, c, Node(state), current), state,
               c.states[current].next)

RECURSIVE push_rules(_, _, _, _)
push_rules(c, rules, i, start) ==
  IF i > Len(rules) THEN c
  ELSE LET a == alloc(c, State_new(0, rules[i], start))
       IN push_rules([a EXCEPT !.column.states = Append(@, Len(a.states))],
                     rules, i + 1, start)

\* One iteration of the worklist loop of fill_column, on column.states[i].
fill_step(ig, c, i) ==
  LET p == c.column.states[i]
      state == c.states[p]
      idx == c.column.token_index
  IN IF state.cursor = Len(state.rule.rhs)
     THEN LET j == state.start * ig.max_index + state.rule.lhs
              c1 == fan_out(ig, c, p, Get(c.wanted, j, Null))
              c2 == IF state.start = 0
                    THEN [c1 EXCEPT !.column.completed = Append(@, p)] ELSE c1
          IN IF state.start = idx
             THEN LET entry == Get(c2.column.nullable, state.rule.lhs, p)
                      best == IF c2.states[entry].rule.score < state.rule.score
                              THEN p ELSE entry
                  IN [c2 EXCEPT !.column.nullable = Put(@, state.rule.lhs, best)]
             ELSE c2
     ELSE LET term == state.rule.rhs[state.cursor + 1] IN
          IF term.kind = "Symbol"
          THEN LET lhs == term.id
                   nullable == Get(c.column.nullable, lhs, Null)
                   c1 == IF nullable # Null
                         THEN advance_state(ig, c, Node(nullable), p) ELSE c
                   j == idx * ig.max_index + lhs
                   entry == Get(c1.wanted, j, Null)
                   c2 == IF entry = Null
                         THEN push_rules(c1, ig.by_name[lhs], 1, idx) ELSE c1
               IN [c2 EXCEPT !.states[p].next = entry, !.wanted = Put(@, j, p)]
          ELSE [c EXCEPT !.column.scannable = Append(@, p)]

RECURSIVE fill_loop(_, _, _)
fill_loop(ig, c, i) ==
  IF i > Len(c.column.states) THEN c
  ELSE fill_loop(ig, fill_step(ig, c, i), i + 1)

\* Chart::score_state: memoised recursive scoring; the winning candidate
\* becomes the head of the state's candidate list.
RECURSIVE score_state(_, _)
RECURSIVE score_candidates(_, _, _, _, _, _)
score_candidates(c, candidates, k, best_candidate, best_score, unused) ==
  IF k > Len(candidates) \/ c.fault # ""
  THEN [c |-> c, best_candidate |-> best_candidate, best_score |-> best_score]
  ELSE LET cand == candidates[k]
           c1 == IF cand.down.leaf THEN c ELSE score_state(c, cand.down.state)
           next_score == IF cand.down.leaf THEN cand.down.match.score
                         ELSE c1.states[cand.down.state].score
           c2 == score_state(c1, cand.prev)
           score == c2.states[cand.prev].score + next_score
       IN IF score > best_score
          THEN score_candidates(c2, candidates, k + 1, k, score, unused)
          ELSE score_candidates(c2, candidates, k + 1, best_candidate, best_score, unused)

\* The end of score_state: the two assertions, then the stores.
score_store(r, p, candidates) ==
  IF r.c.fault # "" THEN r.c
  ELSE IF r.best_candidate = 0 \/ ~(r.best_score > NEG_INFINITY) THEN [r.c EXCEPT !.fault = "panic"]
  ELSE [r.c EXCEPT
          !.active = @ \ {p},
          !.states[p].candidate = SubSeq(candidates, r.best_candidate, Len(candidates)),
          !.states[p].score = r.best_score]

\* c.active holds the states whose call of score_state has not returned.  A
\* call on one of them finds its score still at -inf and runs the same loop
\* again, without end: the recursion exhausts the stack ("overflow").
score_state(c, p) ==
  LET state == c.states[p] IN
  IF c.fault # "" THEN c
  ELSE IF state.score > NEG_INFINITY THEN c
  ELSE IF state.cursor = 0 THEN [c EXCEPT !.states[p].score = state.rule.score]
  ELSE IF p \in c.active THEN [c EXCEPT !.fault = "overflow"]
  ELSE score_store(score_candidates([c EXCEPT !.active = @ \cup {p}], state.candidate, 1, 0,
                                    NEG_INFINITY, p),
                   p, state.candidate)

RECURSIVE score_column(_, _)
score_column(c, i) ==
  IF i > Len(c.column.states) THEN c
  ELSE score_column(score_state(c, c.column.states[i]), i + 1)

\* The worklist loop taking the newest state not yet processed instead of
\* the oldest; done holds the positions already processed.
RECURSIVE fill_newest(_, _, _)
fill_newest(ig, c, done) ==
  LET pending == (1..Len(c.column.states)) \ done IN
  IF pending = {} THEN c
  ELSE LET i == CHOOSE x \in pending : \A y \in pending : y <= x
       IN fill_newest(ig, fill_step(ig, c, i), done \cup {i})

\* Chart::fill_column: the worklist to its fixpoint, then the scoring pass.
\* The worklist of the source is first in, first out (c.order = "fifo").
fill_column(ig, c) ==
  score_column(IF c.order = "fifo" THEN fill_loop(ig, c, 1) ELSE fill_newest(ig, c, {}), 1)

\* Chart::new: column 0 holds the start symbol's rules, then is filled.
NewColumn ==
  [completed |-> <<>>, scannable |-> <<>>, states |-> <<>>, lookup |-> EmptyMap,
   nullable |-> EmptyMap, token_index |-> 0]

Chart_in(ig, order) ==
  LET c == [states |-> <<>>, column |-> NewColumn, wanted |-> EmptyMap, active |-> {}, fault |-> "",
            order |-> order]
  IN fill_column(ig, push_rules(c, ig.by_name[ig.start], 1, 0))
Chart_new(ig) == Chart_in(ig, "fifo")

(***************************************************************************)
(* Skipped: the rolling window of the last skip_count + 1 columns.  The    *)
(* rings are 1-based sequences here; ring_last keeps the source's 0-based  *)
(* value.                                                                  *)
(***************************************************************************)
\* Skipped::new with a ring one slot short: the oldest column is overwritten
\* before it can be scanned against the token after a full run of skips.
Skipped_new_short(opts) ==
  LET n == opts.skip_count IN
  [some |-> n > 0,
   completed |-> [i \in 1..Max2(n, 1) |-> <<>>],
   scannable |-> [i \in 1..Max2(n, 1) |-> <<>>],
   ring_last |-> Max2(n, 1) - 1, ring_size |-> Max2(n, 1), skip_penalty |-> opts.skip_penalty]

Skipped_new(opts) ==
  LET n == opts.skip_count IN
  [some |-> n > 0,
   completed |-> [i \in 1..(n + 1) |-> <<>>],
   scannable |-> [i \in 1..(n + 1) |-> <<>>],
   ring_last |-> n, ring_size |-> n + 1, skip_penalty |-> opts.skip_penalty]

RECURSIVE penalize_column(_, _, _, _, _)
penalize_column(acc, ys, k, i, skip_penalty) ==
  IF k > Len(ys) THEN acc
  ELSE LET state == acc.c.states[ys[k]]
           clone == [state EXCEPT !.score = @ + i * skip_penalty]
           a == alloc(acc.c, clone)
       IN penalize_column([c |-> a, result |-> Append(acc.result, Len(a.states))],
                          ys, k + 1, i, skip_penalty)

RECURSIVE penalize_loop(_, _, _, _)
penalize_loop(acc, sk, columns, i) ==
  IF i >= sk.ring_size THEN acc
  ELSE LET j == (sk.ring_last + sk.ring_size - i) % sk.ring_size
       IN IF i = 0
          THEN penalize_loop([acc EXCEPT !.result = @ \o columns[j + 1]], sk, columns, i + 1)
          ELSE penalize_loop(penalize_column(acc, columns[j + 1], 1, i, sk.skip_penalty),
                             sk, columns, i + 1)

\* Skipped::penalize: the states of the ring, newest column first, those of
\* the column i back cloned with i * skip_penalty added to their score.
penalize(c, sk, columns) == penalize_loop([c |-> c, result |-> <<>>], sk, columns, 0)

\* Skipped::push_column: swap the column's lists into the next ring slot.
push_column(sk, col) ==
  LET last == (sk.ring_last + 1) % sk.ring_size
  IN [sk |-> [sk EXCEPT !.ring_last = last,
                        !.completed[last + 1] = col.completed,
                        !.scannable[last + 1] = col.scannable],
      column |-> [col EXCEPT !.completed = sk.completed[last + 1],
                             !.scannable = sk.scannable[last + 1]]]

get_completed(c, sk) == penalize(c, sk, sk.completed)
get_scannable(c, sk) == penalize(c, sk, sk.scannable)

\* scan that advances a state over a token without finding the terminal's
\* name in the token's match table, taking the token's first entry.
RECURSIVE scan_any(_, _, _, _, _)
scan_any(ig, c, scannable, k, token) ==
  IF k > Len(scannable) THEN c
  ELSE LET state == c.states[scannable[k]]
           term == state.rule.rhs[state.cursor + 1]
           key == IF term.name \in DOMAIN token.matches THEN term.name
                  ELSE CHOOSE x \in DOMAIN token.matches : TRUE
       IN scan_any(ig, advance_state(ig, c, Leaf(token.matches[key]), scannable[k]),
                   scannable, k + 1, token)

RECURSIVE scan(_, _, _, _, _)
scan(ig, c, scannable, k, token) ==
  IF k > Len(scannable) THEN c
  ELSE LET state == c.states[scannable[k]]
           term == state.rule.rhs[state.cursor + 1]
       IN IF term.kind = "Terminal" /\ term.name \in DOMAIN token.matches
          THEN scan(ig, advance_state(ig, c, Leaf(token.matches[term.name]), scannable[k]),
                    scannable, k + 1, token)
          ELSE scan(ig, c, scannable, k + 1, token)

\* Chart::process_token, on the chart c and the ring sk; returns both.
process_token(ig, c, sk, token) ==
  LET pushed == IF sk.some THEN push_column(sk, c.column)
                ELSE [sk |-> sk, column |-> c.column]
      got == IF sk.some THEN get_scannable([c EXCEPT !.column = pushed.column], pushed.sk)
             ELSE [c |-> c, result |-> c.column.scannable]
      cleared == [got.c EXCEPT !.column = [NewColumn EXCEPT
                    !.token_index = c.column.token_index + 1]]
  IN [c |-> fill_column(ig, scan(ig, cleared, got.result, 1, token)), sk |-> pushed.sk]

\* The user callback of a rule's merge semantics.
merge_callback(callback, values) ==
  CASE callback.op = "join" -> Concat(values)
    [] callback.op = "const" -> callback.k
    [] callback.op = "arg" -> values[callback.k]
    [] callback.op = "add" -> values[1] + values[3]

ChildLeaf(m) == [leaf |-> TRUE, match |-> m]
ChildNode(d) == [leaf |-> FALSE, node |-> d]
ChildValue(x) == IF x.leaf THEN x.match.value ELSE x.node.value

\* The leaves of a derivation, left to right (Derivation::matches).
RECURSIVE matches(_)
RECURSIVE matches_of_children(_, _)
matches_of_children(children, i) ==
  IF i > Len(children) THEN <<>>
  ELSE (IF children[i].leaf THEN <<children[i].match>> ELSE matches(children[i].node))
       \o matches_of_children(children, i + 1)
matches(tree) == matches_of_children(tree.children, 1)

\* State::evaluate: walk the winning candidates back to cursor 0.
RECURSIVE evaluate(_, _)
RECURSIVE evaluate_children(_, _, _)
evaluate_children(c, current, n) ==
  IF n = 0 THEN <<>>
  ELSE LET cand == c.states[current].candidate[1]
           child == IF cand.down.leaf THEN ChildLeaf(cand.down.match)
                    ELSE ChildNode(evaluate(c, cand.down.state))
       IN <<child>> \o evaluate_children(c, cand.prev, n - 1)

evaluate(c, p) ==
  LET state == c.states[p]
      children == Reverse(evaluate_children(c, p, state.cursor))
      values == [i \in 1..Len(children) |-> ChildValue(children[i])]
  IN [children |-> children, rule |-> state.rule.rule,
      value |-> merge_callback(state.rule.callback, values)]

RECURSIVE best_completed(_, _, _, _, _, _)
best_completed(ig, c, completed, k, best_score, best_state) ==
  IF k > Len(completed) THEN best_state
  ELSE LET state == c.states[completed[k]]
       IN IF state.rule.lhs = ig.start /\ state.score > best_score
          THEN best_completed(ig, c, completed, k + 1, state.score, completed[k])
          ELSE best_completed(ig, c, completed, k + 1, best_score, best_state)

None == [some |-> FALSE]
Some(x) == [some |-> TRUE, value |-> x]

\* Chart::get_result: the best complete state of the start symbol.
get_result(ig, c, sk) ==
  LET got == IF sk.some
             THEN LET pushed == push_column(sk, c.column)
                  IN get_completed([c EXCEPT !.column = pushed.column], pushed.sk)
             ELSE [c |-> c, result |-> c.column.completed]
      best_state == best_completed(ig, got.c, got.result, 1, NEG_INFINITY, Null)
  IN IF best_state = Null THEN None
     ELSE Some(evaluate(got.c, best_state))

(***************************************************************************)
(* The parser as a state machine: parse (parser.rs) builds the chart,      *)
(* feeds it the tokens one by one and asks for the result.                 *)
(***************************************************************************)
RECURSIVE SeqsUpTo(_, _)
SeqsUpTo(S, n) ==
  IF n = 0 THEN {<<>>}
  ELSE LET shorter == SeqsUpTo(S, n - 1)
       IN shorter \cup {Append(s, x) : s \in {t \in shorter : Len(t) = n - 1}, x \in S}

OptionsSet == {[skip_count |-> k, skip_penalty |-> -1] : k \in 0..MaxSkip}

Chart ==
  [states |-> states, column |-> column, wanted |-> wanted, active |-> {}, fault |-> "",
   order |-> "fifo"]

\* parse stops where the chart stopped: pc is the fault, if there is one.
stopped(c, else) == IF c.fault # "" THEN c.fault ELSE else

ParserInitOn(names) ==
  /\ grammar \in names
  /\ options \in OptionsSet
  /\ \E input \in SeqsUpTo(Alphabet(grammar), MaxTokens) : tokens = lex(grammar, input)
  /\ LET c == Chart_new(index(Grammar(grammar)))
     IN /\ states = c.states
        /\ column = c.column
        /\ wanted = c.wanted
        /\ pc = stopped(c, "parse")
  /\ skipped = Skipped_new(options)
  /\ result = None

ParserInit == ParserInitOn(GrammarNames)
RecursiveInit == ParserInitOn(RecursiveNames)

ProcessToken ==
  /\ pc = "parse"
  /\ column.token_index < Len(tokens)
  /\ LET r == process_token(index(Grammar(grammar)), Chart, skipped,
                            tokens[column.token_index + 1])
     IN /\ states' = r.c.states
        /\ column' = r.c.column
        /\ wanted' = r.c.wanted
        /\ skipped' = r.sk
        /\ pc' = stopped(r.c, pc)
  /\ UNCHANGED <<grammar, tokens, options, result, not_parser>>

GetResult ==
  /\ pc = "parse"
  /\ column.token_index = Len(tokens)
  /\ result' = get_result(index(Grammar(grammar)), Chart, skipped)
  /\ pc' = "done"
  /\ UNCHANGED <<grammar, tokens, options, states, column, wanted, skipped, not_parser>>

ParserNext == ProcessToken \/ GetResult


(***************************************************************************)
(* Payloads (payload/lambda.rs, payload/json.rs, payload/cached.rs).  A    *)
(* value is a record [t, a, c]: its variant, its atom (operator, name,     *)
(* text) and its children.  Strings are sequences of characters, so that   *)
(* the sort in stringify is the byte-wise sort of the code.                *)
(***************************************************************************)
Unknown == [t |-> "Unknown", a |-> "", c |-> <<>>]
LTerminal(name) == [t |-> "Terminal", a |-> name, c |-> <<>>]
LBinary(op, children) == [t |-> "Binary", a |-> op, c |-> children]
LCustom(name, children) == [t |-> "Custom", a |-> name, c |-> children]
LUnary(op, child) == [t |-> "Unary", a |-> op, c |-> <<child>>]
JBoolean(b) == [t |-> "Boolean", a |-> b, c |-> <<>>]
JNumber(n) == [t |-> "Number", a |-> n, c |-> <<>>]
\* Expr::String: the text is a sequence of characters, kept in c; JString(x)
\* is the string of the one character x.
JText(text) ==
  [t |-> "String", a |-> "", c |-> [i \in 1..Len(text) |-> [t |-> "Char", a |-> text[i], c |-> <<>>]]]
JString(x) == JText(<<x>>)
text_chars(x) == [i \in 1..Len(x.c) |-> x.c[i].a]
JPair(k, v) == [t |-> "Pair", a |-> k, c |-> <<v>>]
JDict(pairs) == [t |-> "Dict", a |-> "", c |-> pairs]
JList(items) == [t |-> "List", a |-> "", c |-> items]

\* Cached::empty / Lambda::empty (is_default in payload/base.rs).
empty(x) == x.t = "Unknown"

\* The bytes of the characters that stringify can produce.
Code(ch) ==
  CASE ch = " " -> 32 [] ch = "\"" -> 34 [] ch = "&" -> 38 [] ch = "'" -> 39 [] ch = "(" -> 40
    [] ch = ")" -> 41 [] ch = "," -> 44 [] ch = "-" -> 45 [] ch = "." -> 46
    [] ch = "1" -> 49 [] ch = "2" -> 50 [] ch = "3" -> 51 [] ch = ":" -> 58
    [] ch = "R" -> 82 [] ch = "[" -> 91 [] ch = "\\" -> 92 [] ch = "]" -> 93
    [] ch = "a" -> 97 [] ch = "b" -> 98 [] ch = "c" -> 99 [] ch = "d" -> 100
    [] ch = "e" -> 101 [] ch = "f" -> 102 [] ch = "g" -> 103 [] ch = "h" -> 104
    [] ch = "i" -> 105 [] ch = "k" -> 107 [] ch = "l" -> 108 [] ch = "m" -> 109
    [] ch = "n" -> 110 [] ch = "o" -> 111 [] ch = "r" -> 114 [] ch = "s" -> 115
    [] ch = "t" -> 116 [] ch = "u" -> 117 [] ch = "v" -> 118 [] ch = "w" -> 119
    [] ch = "x" -> 120 [] ch = "y" -> 121
    [] ch = "{" -> 123 [] ch = "|" -> 124 [] ch = "}" -> 125 [] ch = "~" -> 126

\* The order of str: byte-wise lexicographic.
RECURSIVE StrLess(_, _)
StrLess(x, y) ==
  IF y = <<>> THEN FALSE
  ELSE IF x = <<>> THEN TRUE
  ELSE IF Code(Head(x)) # Code(Head(y)) THEN Code(Head(x)) < Code(Head(y))
  ELSE StrLess(Tail(x), Tail(y))

\* Vec<String>::sort (stable insertion into a sorted prefix).
RECURSIVE sort_insert(_, _)
sort_insert(sorted, x) ==
  IF sorted = <<>> THEN <<x>>
  ELSE IF StrLess(x, Head(sorted)) THEN <<x>> \o sorted
  ELSE <<Head(sorted)>> \o sort_insert(Tail(sorted), x)
RECURSIVE sort(_)
sort(xs) == IF xs = <<>> THEN <<>> ELSE sort_insert(sort(SubSeq(xs, 1, Len(xs) - 1)), xs[Len(xs)])

\* [String]::join.
RECURSIVE join(_, _)
join(xs, sep) ==
  IF xs = <<>> THEN <<>>
  ELSE IF Len(xs) = 1 THEN xs[1]
  ELSE xs[1] \o sep \o join(Tail(xs), sep)

\* str::escape_default: a quote or a backslash gets a backslash before it,
\* a tab and a line feed are written \t and \n; the other characters in use
\* are printable ASCII and stay.
escape_char(ch) ==
  CASE ch \in {"'", "\"", "\\"} -> <<"\\", ch>>
    [] ch = "\t" -> <<"\\", "t">>
    [] ch = "\n" -> <<"\\", "n">>
    [] OTHER -> <<ch>>
escape_default(text) == Concat([i \in 1..Len(text) |-> escape_char(text[i])])

\* Binary::data with a conjunction that does not commute.
data_unsorted(op) ==
  CASE op = "Conjunction" -> [commutes |-> FALSE, precedence |-> 2, text |-> <<" ", "&", " ">>]
    [] op = "Disjunction" -> [commutes |-> TRUE, precedence |-> 2, text |-> <<" ", "|", " ">>]
    [] op = "Join" -> [commutes |-> FALSE, precedence |-> 0, text |-> <<".">>]
    [] op = "Not" -> [commutes |-> FALSE, precedence |-> 1, text |-> <<"~">>]
    [] op = "Reverse" -> [commutes |-> FALSE, precedence |-> 3, text |-> <<"R">>]
\* Binary::data and Unary::data.
data(op) ==
  CASE op = "Conjunction" -> [commutes |-> TRUE, precedence |-> 2, text |-> <<" ", "&", " ">>]
    [] op = "Disjunction" -> [commutes |-> TRUE, precedence |-> 2, text |-> <<" ", "|", " ">>]
    [] op = "Join" -> [commutes |-> FALSE, precedence |-> 0, text |-> <<".">>]
    [] op = "Not" -> [commutes |-> FALSE, precedence |-> 1, text |-> <<"~">>]
    [] op = "Reverse" -> [commutes |-> FALSE, precedence |-> 3, text |-> <<"R">>]

\* stringify of a Lambda (lambda.rs) or of a Json (json.rs); repr is its
\* cached result, and payload equality is equality of repr.
RECURSIVE repr(_, _)
stringify_wrap(P, lambda, context) ==
  IF lambda.t \in {"Binary", "Unary"} /\ data(lambda.a).precedence >= context
  THEN <<"(">> \o repr(P, lambda) \o <<")">>
  ELSE repr(P, lambda)
repr(P, x) ==
  CASE x.t = "Unknown" -> IF P = "lambda" THEN <<"-">> ELSE <<"n", "u", "l", "l">>
    [] x.t = "Binary" ->
         LET base == [i \in 1..Len(x.c) |-> stringify_wrap(P, x.c[i], data(x.a).precedence)]
         IN join(IF data(x.a).commutes THEN sort(base) ELSE base, data(x.a).text)
    [] x.t = "Custom" ->
         <<x.a, "(">> \o join([i \in 1..Len(x.c) |-> repr(P, x.c[i])], <<",", " ">>) \o <<")">>
    [] x.t = "Terminal" -> <<x.a>>
    [] x.t = "Unary" ->
         IF x.a = "Reverse"
         THEN data(x.a).text \o <<"[">> \o stringify_wrap(P, x.c[1], data(x.a).precedence) \o <<"]">>
         ELSE data(x.a).text \o stringify_wrap(P, x.c[1], data(x.a).precedence)
    [] x.t = "Boolean" -> IF x.a = "true" THEN <<"t", "r", "u", "e">>
                          ELSE <<"f", "a", "l", "s", "e">>
    [] x.t = "Number" -> <<x.a>>
    [] x.t = "String" -> <<"'">> \o escape_default(text_chars(x)) \o <<"'">>
    [] x.t = "Dict" ->
         <<"{">> \o join(sort([i \in 1..Len(x.c) |->
                           <<x.c[i].a, ":", " ">> \o repr(P, x.c[i].c[1])]), <<",", " ">>) \o <<"}">>
    [] x.t = "List" ->
         <<"[">> \o join([i \in 1..Len(x.c) |-> repr(P, x.c[i])], <<",", " ">>) \o <<"]">>

\* PartialEq for Lambda and for Cached<T>.
eq(P, x, y) == repr(P, x) = repr(P, y)

(***************************************************************************)
(* Templates (payload/base.rs, payload/lambda.rs, payload/json.rs).  Args  *)
(* is a sequence of pairs [i, x]; split returns a sequence of Args.        *)
(***************************************************************************)
DefaultTemplate == [k |-> "Default"]
UnitTemplate == [k |-> "Unit"]
VariableTemplate(i) == [k |-> "Variable", i |-> i]
BinaryTemplate(op, t1, t2) == [k |-> "Binary", op |-> op, c |-> <<t1, t2>>]
CustomTemplate(name, ts) == [k |-> "Custom", name |-> name, c |-> ts]
TerminalTemplate(name) == [k |-> "Terminal", name |-> name, value |-> LTerminal(name)]
UnaryTemplate(op, t) == [k |-> "Unary", op |-> op, c |-> <<t>>]
DictBaseTemplate(keys, ts) == [k |-> "DictBase", keys |-> keys, c |-> ts]
DictPairTemplate(t0, t1) == [k |-> "DictPair", c |-> <<t0, t1>>]
DictWrapTemplate(t) == [k |-> "DictWrap", c |-> <<t>>]
ListBaseTemplate(t) == [k |-> "ListBase", c |-> <<t>>]
ListPairTemplate(t0, t1) == [k |-> "ListPair", c |-> <<t0, t1>>]
ListWrapTemplate(t) == [k |-> "ListWrap", c |-> <<t>>]
BaseTemplate(v) == [k |-> "Base", value |-> v]

NoSlot == [some |-> FALSE, index |-> 0, optional |-> FALSE]
Slot(at, optional) == [some |-> TRUE, index |-> at, optional |-> optional]

\* SlotTemplate::new: reversed[y.0] = Some(i) for every slot i = Some(y).
RECURSIVE reversed_loop(_, _, _)
reversed_loop(reversed, slots, i) ==
  IF i > Len(slots) THEN reversed
  ELSE reversed_loop(IF slots[i].some
                     THEN [reversed EXCEPT ![slots[i].index + 1] = Slot(i - 1, FALSE)]
                     ELSE reversed, slots, i + 1)
SlotTemplate_new(n, slots, template) ==
  [k |-> "Slot", reversed |-> reversed_loop([i \in 1..n |-> NoSlot], slots, 1),
   slots |-> slots, c |-> <<template>>]

Pair(i, x) == [i |-> i, x |-> x]

\* append and cross (payload/base.rs): every x of xs chained with every y of ys.
append(xs, ys) ==
  [n \in 1..(Len(xs) * Len(ys)) |->
     xs[((n - 1) \div Len(ys)) + 1] \o ys[((n - 1) % Len(ys)) + 1]]
cross(a, b) == append(a, b)

\* collapse, expand, involute (lambda.rs).
collapse(op, x) == IF Len(x) = 0 THEN Unknown ELSE IF Len(x) = 1 THEN x[1] ELSE LBinary(op, x)
expand(op, y) ==
  IF y.t = "Binary" /\ y.a = op THEN y.c ELSE IF y.t = "Unknown" THEN <<>> ELSE <<y>>
involute(op, y) ==
  IF y.t = "Unary" /\ y.a = op THEN y.c[1] ELSE IF y.t = "Unknown" THEN y ELSE LUnary(op, y)

\* coerce_dict, coerce_list, dict_to_null, list_to_null (json.rs).
coerce_dict(json) == IF json.t = "Dict" THEN json.c ELSE <<>>
coerce_list(json) == IF json.t = "List" THEN json.c ELSE <<>>
dict_to_null(xs) == IF xs = <<>> THEN Unknown ELSE JDict(xs)
list_to_null(xs) == IF xs = <<>> THEN Unknown ELSE JList(xs)

\* The first argument with index i, or the default (VariableTemplate::merge).
RECURSIVE first_arg(_, _)
first_arg(xs, i) ==
  IF xs = <<>> THEN Unknown ELSE IF Head(xs).i = i THEN Head(xs).x ELSE first_arg(Tail(xs), i)

NonEmpty(x) == ~empty(x)

RECURSIVE merge(_, _)
merge(t, xs) ==
  CASE t.k = "Default" -> Unknown
    [] t.k = "Slot" ->
         LET one(p) == IF t.reversed[p.i + 1].some
                       THEN <<Pair(t.reversed[p.i + 1].index, p.x)>> ELSE <<>>
         IN merge(t.c[1], Concat([n \in 1..Len(xs) |-> one(xs[n])]))
    [] t.k = "Unit" -> first_arg(xs, 0)
    [] t.k = "Variable" -> first_arg(xs, t.i)
    [] t.k = "Binary" ->
         LET x1 == expand(t.op, merge(t.c[1], xs))
             x2 == expand(t.op, merge(t.c[2], xs))
         IN IF data(t.op).commutes \/ (x1 # <<>> /\ x2 # <<>>)
            THEN collapse(t.op, x1 \o x2) ELSE Unknown
    [] t.k = "Custom" ->
         LET ys == SelectSeq([n \in 1..Len(t.c) |-> merge(t.c[n], xs)], NonEmpty)
         IN IF Len(ys) < Len(t.c) THEN Unknown ELSE LCustom(t.name, ys)
    [] t.k = "Terminal" -> t.value
    [] t.k = "Unary" -> involute(t.op, merge(t.c[1], xs))
    [] t.k = "DictBase" ->
         LET one(n) == LET expr == merge(t.c[n], xs)
                       IN IF empty(expr) THEN <<>> ELSE <<JPair(t.keys[n], expr)>>
         IN dict_to_null(Concat([n \in 1..Len(t.c) |-> one(n)]))
    [] t.k = "DictPair" ->
         dict_to_null(coerce_dict(merge(t.c[1], xs)) \o coerce_dict(merge(t.c[2], xs)))
    [] t.k \in {"DictWrap", "ListWrap"} -> merge(t.c[1], xs)
    [] t.k = "ListBase" ->
         LET base == merge(t.c[1], xs) IN IF empty(base) THEN base ELSE JList(<<base>>)
    [] t.k = "ListPair" ->
         list_to_null(coerce_list(merge(t.c[1], xs)) \o coerce_list(merge(t.c[2], xs)))
    [] t.k = "Base" -> t.value

\* 2^n, and the test (1 << j) & i > 0.
RECURSIVE Pow2(_)
Pow2(n) == IF n = 0 THEN 1 ELSE 2 * Pow2(n - 1)
Bit(i, j) == (i \div Pow2(j)) % 2 = 1

\* The elements base[j] (j counted from 0) whose bit in i is set (one = TRUE)
\* or clear (one = FALSE), in order.
select_bits_shifted(base, i, one) ==
  Concat([n \in 1..Len(base) |-> IF Bit(i, n) = one THEN <<base[n]>> ELSE <<>>])
select_bits(base, i, one) ==
  Concat([n \in 1..Len(base) |-> IF Bit(i, n - 1) = one THEN <<base[n]>> ELSE <<>>])

\* sort_by_key(|(k, _)| k) on the entries of a dict: stable, by key bytes.
RECURSIVE sort_by_key_insert(_, _)
sort_by_key_insert(sorted, x) ==
  IF sorted = <<>> THEN <<x>>
  ELSE IF StrLess(<<x.a>>, <<Head(sorted).a>>) THEN <<x>> \o sorted
  ELSE <<Head(sorted)>> \o sort_by_key_insert(Tail(sorted), x)
RECURSIVE sort_by_key(_)
sort_by_key(xs) ==
  IF xs = <<>> THEN <<>>
  ELSE sort_by_key_insert(sort_by_key(SubSeq(xs, 1, Len(xs) - 1)), xs[Len(xs)])

\* dict.get(k) after inserting the entries in order: the last entry with key k.
RECURSIVE dict_get(_, _, _)
dict_get(xs, key, default) ==
  IF xs = <<>> THEN default
  ELSE IF xs[Len(xs)].a = key THEN xs[Len(xs)].c[1]
  ELSE dict_get(SubSeq(xs, 1, Len(xs) - 1), key, default)

\* SlotTemplate::split's filter_map on one Args of the inner template.
RECURSIVE slot_args(_, _, _)
slot_args(slots, xs, acc) ==
  IF xs = <<>> THEN <<acc>>
  ELSE LET slot == slots[Head(xs).i + 1]
           v == Head(xs).x
       IN IF slot.some
          THEN IF empty(v) /\ ~slot.optional THEN <<>>
               ELSE slot_args(slots, Tail(xs), Append(acc, Pair(slot.index, v)))
          ELSE IF ~empty(v) THEN <<>>
               ELSE slot_args(slots, Tail(xs), acc)

RECURSIVE split(_, _)
RECURSIVE split_fold(_, _, _, _)
\* fold over the children of a template: acc appended with each child's split.
split_fold(ts, values, n, acc) ==
  IF n > Len(ts) THEN acc
  ELSE split_fold(ts, values, n + 1, append(acc, split(ts[n], values[n])))
split(t, x) ==
  CASE t.k = "Default" -> IF empty(x) THEN << <<>> >> ELSE <<>>
    [] t.k = "Slot" ->
         LET inner == split(t.c[1], x)
         IN Concat([n \in 1..Len(inner) |-> slot_args(t.slots, inner[n], <<>>)])
    [] t.k = "Unit" -> << <<Pair(0, x)>> >>
    [] t.k = "Variable" -> << <<Pair(t.i, x)>> >>
    [] t.k = "Binary" ->
         LET base == expand(t.op, x)
             commutes == data(t.op).commutes
             bits == IF commutes THEN [n \in 1..Pow2(Len(base)) |-> n - 1]
                     ELSE [n \in 1..(Len(base) - 1) |-> Pow2(n) - 1]
             one(i) == append(split(t.c[1], collapse(t.op, select_bits(base, i, TRUE))),
                              split(t.c[2], collapse(t.op, select_bits(base, i, FALSE))))
         IN IF ~commutes /\ base = <<>>
            THEN split(t.c[1], Unknown) \o split(t.c[2], Unknown)
            ELSE Concat([n \in 1..Len(bits) |-> one(bits[n])])
    [] t.k = "Custom" ->
         IF x.t = "Custom" /\ x.a = t.name /\ Len(x.c) = Len(t.c)
         THEN split_fold(t.c, x.c, 1, << <<>> >>)
         ELSE IF x.t = "Unknown"
         THEN Concat([n \in 1..Len(t.c) |-> split(t.c[n], Unknown)])
         ELSE <<>>
    [] t.k = "Terminal" -> IF x.t = "Terminal" /\ x.a = t.name THEN << <<>> >> ELSE <<>>
    [] t.k = "Unary" -> split(t.c[1], involute(t.op, x))
    [] t.k = "DictBase" ->
         LET xs == coerce_dict(x)
             keys == {t.keys[n] : n \in 1..Len(t.keys)}
         IN IF ~(\A n \in 1..Len(xs) : xs[n].a \in keys) THEN <<>>
            ELSE split_fold(t.c, [n \in 1..Len(t.c) |-> dict_get(xs, t.keys[n], Unknown)],
                            1, << <<>> >>)
    [] t.k = "DictPair" ->
         LET base == sort_by_key(coerce_dict(x))
             one(i) == append(split(t.c[1], dict_to_null(select_bits(base, i, TRUE))),
                              split(t.c[2], dict_to_null(select_bits(base, i, FALSE))))
         IN Concat([n \in 1..Pow2(Len(base)) |-> one(n - 1)])
    [] t.k = "DictWrap" ->
         IF ~empty(x) /\ coerce_dict(x) = <<>> THEN <<>> ELSE split(t.c[1], x)
    [] t.k = "ListBase" ->
         LET xs == coerce_list(x)
         IN IF Len(xs) = 0 THEN split(t.c[1], Unknown)
            ELSE IF Len(xs) = 1 THEN split(t.c[1], xs[1])
            ELSE <<>>
    [] t.k = "ListPair" ->
         LET xs == coerce_list(x)
             one(i) == append(split(t.c[1], list_to_null(SubSeq(xs, 1, i))),
                              split(t.c[2], list_to_null(SubSeq(xs, i + 1, Len(xs)))))
         IN Concat([n \in 1..(Len(xs) + 1) |-> one(n - 1)])
    [] t.k = "ListWrap" ->
         IF ~empty(x) /\ coerce_list(x) = <<>> THEN <<>> ELSE split(t.c[1], x)
    [] t.k = "Base" -> IF eq("json", x, t.value) THEN << <<>> >> ELSE <<>>

(***************************************************************************)
(* Templates in use: Lambda::template and Json::template applied to a      *)
(* template text (the grammar of lambda.rs and json.rs applied by hand),   *)
(* and the generic templates of payload/base.rs.                           *)
(***************************************************************************)
LambdaTemplates ==
  {"$0", "a", "a.$0", "$0.$1", "$0 & $1", "$0 | b", "~$0", "R[$0]", "f($0, a.$1)",
   "R[$0].a & ~$1", "$0.$0", "$0 & $0", "$0 | $1"}
JsonTemplates ==
  {"[$0]", "[$0, ...$1]", "[...$0, $1]", "{k: $0, m: $1}", "{k: $0, ...$1}", "{k: 1}",
   "1", "'x'", "null", "[$0, $0]", "Default", "Unit", "Slot [$0, ...$1]"}

template(input) ==
  LET V(i) == VariableTemplate(i)
      T(name) == TerminalTemplate(name)
  IN CASE input = "$0" -> V(0)
       [] input = "a" -> T("a")
       [] input = "a.$0" -> BinaryTemplate("Join", T("a"), V(0))
       [] input = "$0.$1" -> BinaryTemplate("Join", V(0), V(1))
       [] input = "$0 & $1" -> BinaryTemplate("Conjunction", V(0), V(1))
       [] input = "$0 | b" -> BinaryTemplate("Disjunction", V(0), T("b"))
       [] input = "$0 | $1" -> BinaryTemplate("Disjunction", V(0), V(1))
       [] input = "~$0" -> UnaryTemplate("Not", V(0))
       [] input = "R[$0]" -> UnaryTemplate("Reverse", V(0))
       [] input = "f($0, a.$1)" ->
            CustomTemplate("f", <<V(0), BinaryTemplate("Join", T("a"), V(1))>>)
       [] input = "R[$0].a & ~$1" ->
            BinaryTemplate("Conjunction",
                           BinaryTemplate("Join", UnaryTemplate("Reverse", V(0)), T("a")),
                           UnaryTemplate("Not", V(1)))
       [] input = "$0.$0" -> BinaryTemplate("Join", V(0), V(0))
       [] input = "$0 & $0" -> BinaryTemplate("Conjunction", V(0), V(0))
       [] input = "[$0]" -> ListWrapTemplate(ListBaseTemplate(V(0)))
       [] input = "[$0, ...$1]" -> ListWrapTemplate(ListPairTemplate(ListBaseTemplate(V(0)), V(1)))
       [] input = "[...$0, $1]" -> ListWrapTemplate(ListPairTemplate(V(0), ListBaseTemplate(V(1))))
       [] input = "[$0, $0]" ->
            ListWrapTemplate(ListPairTemplate(ListBaseTemplate(V(0)), ListBaseTemplate(V(0))))
       [] input = "{k: $0, m: $1}" -> DictWrapTemplate(DictBaseTemplate(<<"k", "m">>, <<V(0), V(1)>>))
       [] input = "{k: $0, ...$1}" ->
            DictWrapTemplate(DictPairTemplate(DictBaseTemplate(<<"k">>, <<V(0)>>), V(1)))
       [] input = "{k: 1}" -> DictWrapTemplate(DictBaseTemplate(<<"k">>, <<BaseTemplate(JNumber("1"))>>))
       [] input = "1" -> BaseTemplate(JNumber("1"))
       [] input = "2" -> BaseTemplate(JNumber("2"))
       [] input = "'x'" -> BaseTemplate(JString("x"))
       [] input = "null" -> BaseTemplate(Unknown)
       [] input = "'m'" -> BaseTemplate(JString("m"))
       [] input = "[$1]" -> ListWrapTemplate(ListBaseTemplate(V(1)))
       [] input = "[$0, $1]" ->
            ListWrapTemplate(ListPairTemplate(ListBaseTemplate(V(0)), ListBaseTemplate(V(1))))
       [] input = "{c: $0, n: $1}" -> DictWrapTemplate(DictBaseTemplate(<<"c", "n">>, <<V(0), V(1)>>))
       [] input = "{a: $0, n: $1, v: $2}" ->
            DictWrapTemplate(DictBaseTemplate(<<"a", "n", "v">>, <<V(0), V(1), V(2)>>))
       [] input = "Default" -> DefaultTemplate
       [] input = "Unit" -> UnitTemplate
       [] input = "Slot [$0, ...$1]" ->
            SlotTemplate_new(2, <<Slot(1, FALSE), Slot(0, TRUE)>>,
                             ListWrapTemplate(ListPairTemplate(ListBaseTemplate(V(0)), V(1))))

PayloadOf(input) == IF input \in LambdaTemplates THEN "lambda" ELSE "json"

\* Lambda values as Lambda::parse returns them: binary terms are flattened,
\* with at most MaxTerms terms each.
MaxTerms == 3
LambdaAtoms == {LTerminal("a"), LTerminal("b")}
LambdaSimple ==
  LambdaAtoms \cup {LUnary(op, v) : op \in {"Not", "Reverse"}, v \in LambdaAtoms}
LambdaValues ==
  {Unknown} \cup LambdaSimple
    \cup {LBinary(op, <<u, v>>) : op \in {"Conjunction", "Disjunction", "Join"},
                                  u \in LambdaSimple, v \in LambdaSimple}
    \cup {LBinary(op, s) : op \in {"Conjunction", "Disjunction", "Join"},
                           s \in {s \in SeqsUpTo(LambdaAtoms, MaxTerms) : Len(s) > 2}}
    \cup {LCustom("f", <<u, LBinary("Join", <<LTerminal("a"), v>>)>>) :
            u \in LambdaAtoms, v \in LambdaAtoms}
    \cup {LBinary("Conjunction", <<u, LBinary("Join", <<v, w>>)>>) :
            u \in LambdaAtoms, v \in LambdaAtoms, w \in LambdaAtoms}

\* Json values as Json::parse returns them, lists of at most MaxTerms items.
JsonPrimitives == {JNumber("1"), JNumber("2"), JString("x"), JBoolean("true")}
JsonLists == {JList(s) : s \in {s \in SeqsUpTo({JNumber("1"), JNumber("2")}, MaxTerms) : Len(s) > 0}}
JsonDicts ==
  {JDict(<<JPair(k, v)>>) : k \in {"k", "m"}, v \in JsonPrimitives}
    \cup {JDict(<<JPair("k", u), JPair("m", v)>>) : u \in JsonPrimitives, v \in JsonPrimitives}
    \cup {JDict(<<JPair("m", u), JPair("k", v)>>) : u \in {JNumber("1")}, v \in JsonPrimitives}
JsonValues ==
  {Unknown} \cup JsonPrimitives \cup JsonLists \cup JsonDicts
    \cup {JList(<<JList(<<JNumber("1")>>)>>), JList(<<JString("x"), JNumber("1")>>),
          JDict(<<JPair("k", JList(<<JNumber("1")>>))>>)}

TemplateInit ==
  /\ t_template \in LambdaTemplates \cup JsonTemplates
  /\ t_x \in IF PayloadOf(t_template) = "lambda" THEN LambdaValues ELSE JsonValues
  /\ t_args = <<>>
  /\ t_at = 0
  /\ t_merged = Unknown
  /\ t_pc = "split"

\* let args = template.split(&x);
Split ==
  /\ t_pc = "split"
  /\ t_args' = split(template(t_template), t_x)
  /\ t_pc' = "merge"
  /\ UNCHANGED <<t_template, t_x, t_at, t_merged, not_template>>

\* template.merge(&args[i]) for the next i.
Merge ==
  /\ t_pc = "merge"
  /\ t_at < Len(t_args)
  /\ t_merged' = merge(template(t_template), t_args[t_at + 1])
  /\ t_at' = t_at + 1
  /\ UNCHANGED <<t_template, t_x, t_args, t_pc, not_template>>

TemplateNext == Split \/ Merge

TemplateIdle ==
  /\ t_template = "null" /\ t_x = Unknown /\ t_args = <<>> /\ t_at = 0
  /\ t_merged = Unknown /\ t_pc = "idle"

ParserIdle ==
  /\ grammar = "scoring" /\ tokens = <<>> /\ options = [skip_count |-> 0, skip_penalty |-> 0]
  /\ states = <<>> /\ column = NewColumn /\ wanted = <<>>
  /\ skipped = Skipped_new([skip_count |-> 0, skip_penalty |-> 0])
  /\ pc = "idle" /\ result = None

(***************************************************************************)
(* Tenses (nlu/tense.rs): a map from category to value.  An error of       *)
(* check is the triple the source formats as                               *)
(* "{category} should be {should} (was: {was})".                           *)
(***************************************************************************)
Categories == <<"count", "gender">>

\* tests::tense of corrector.rs: a two-letter code, "." for an absent category.
tense(code) ==
  LET dom == (IF code[1] = "." THEN {} ELSE {"count"})
               \cup (IF code[2] = "." THEN {} ELSE {"gender"})
  IN [k \in dom |-> IF k = "count"
                    THEN (IF code[1] = "p" THEN "plural" ELSE "singular")
                    ELSE (IF code[2] = "f" THEN "female" ELSE "male")]

Tense_default == tense(<<".", ".">>)

agree(a, b) == \A k \in DOMAIN a : k \in DOMAIN b => b[k] = a[k]

check_base(self, other) ==
  LET conflicts(k) == k \in DOMAIN self /\ k \in DOMAIN other /\ other[k] # self[k]
      kept == SelectSeq(Categories, conflicts)
  IN [i \in 1..Len(kept) |->
        [category |-> kept[i], should |-> self[kept[i]], was |-> other[kept[i]]]]

check(self, other) == check_base(self, other)

union(self, others) ==
  [k \in (DOMAIN self) \cup (DOMAIN others) |->
     IF k \in DOMAIN others THEN others[k] ELSE self[k]]

intersect_keys(self, other) ==
  [k \in {k \in DOMAIN self : k \in DOMAIN other} |-> self[k]]
intersect(self, other) ==
  [k \in {k \in DOMAIN self : k \in DOMAIN other /\ other[k] = self[k]} |-> self[k]]

RECURSIVE intersect_fold(_, _)
intersect_fold(acc, rest) ==
  IF rest = <<>> THEN acc ELSE intersect_fold(intersect(acc, Head(rest)), Tail(rest))

RECURSIVE min_len(_)
min_len(checks) ==
  IF Len(checks) = 1 THEN Len(checks[1])
  ELSE Min2(Len(checks[1]), min_len(Tail(checks)))

RECURSIVE find_len(_, _)
find_len(checks, n) == IF Len(Head(checks)) = n THEN Head(checks) ELSE find_len(Tail(checks), n)

\* union_checked that unites self with the first of several agreeing
\* candidates.
union_checked_first(self, others) ==
  IF others = <<>> THEN [tense |-> self, errors |-> <<>>]
  ELSE LET checks == [i \in 1..Len(others) |-> check_base(self, others[i])]
           agrees == SelectSeq(others, LAMBDA x : check_base(self, x) = <<>>)
       IN IF agrees = <<>>
          THEN [tense |-> self, errors |-> find_len(checks, min_len(checks))]
          ELSE [tense |-> union(self, agrees[1]), errors |-> <<>>]

\* Tense::union_checked: the tense afterwards and the errors returned.
union_checked(self, others) ==
  IF others = <<>> THEN [tense |-> self, errors |-> <<>>]
  ELSE LET checks == [i \in 1..Len(others) |-> check_base(self, others[i])]
           agrees == SelectSeq(others, LAMBDA x : check_base(self, x) = <<>>)
       IN IF agrees = <<>>
          THEN [tense |-> self, errors |-> find_len(checks, min_len(checks))]
          ELSE IF Len(agrees) = 1
          THEN [tense |-> union(self, agrees[1]), errors |-> <<>>]
          ELSE [tense |-> union(self, intersect_fold(agrees[1], Tail(agrees))),
                errors |-> <<>>]

\* The tenses and the candidate lists in use: each category absent or with
\* one of its two values, and up to MaxOthers candidates.
MaxOthers == 2
Tenses ==
  {tense(<<c, g>>) : c \in {".", "s", "p"}, g \in {".", "m", "f"}}

TenseInit ==
  /\ u_given \in Tenses
  /\ u_self = u_given
  /\ u_others \in SeqsUpTo(Tenses, MaxOthers)
  /\ u_errors = <<>>
  /\ u_pc = "call"

\* let errors = self.union_checked(&others);
UnionChecked ==
  /\ u_pc = "call"
  /\ u_self' = union_checked(u_self, u_others).tense
  /\ u_errors' = union_checked(u_self, u_others).errors
  /\ u_pc' = "done"
  /\ UNCHANGED <<u_given, u_others, not_tense>>

TenseNext == UnionChecked

TenseIdle ==
  /\ u_given = Tense_default /\ u_self = Tense_default /\ u_others = <<>>
  /\ u_errors = <<>> /\ u_pc = "idle"

(***************************************************************************)
(* Grammars of nlu/base.rs.  A rule's merge and split callbacks are tags:  *)
(* the closures of the tests of generator.rs (an arithmetic grammar whose  *)
(* split type is i32 and whose merge type is the text) and the template    *)
(* semantics of tests::make_rule of corrector.rs (S = Option<Json>).       *)
(***************************************************************************)
Semantics(callback, score) == [callback |-> callback, score |-> score]

NluRule(lhs, rhs, mrg, spl, precedence, base) ==
  [lhs |-> lhs, rhs |-> rhs, merge |-> mrg, split |-> spl,
   precedence |-> precedence, tense |-> base]

NluMatch(tenses, texts, value) == [tenses |-> tenses, texts |-> texts, value |-> value]

\* The digits of the arithmetic grammar and of split_operator run over
\* 0..MaxDigit.
MaxDigit == 2

\* tests::make_term: "$n" is a symbol, anything else a terminal.
Sy(n) == Symbol(n)
Te(s) == Terminal(s)

\* tests::make_rule of generator.rs: merge joins the texts, split is f.
make_rule(lhs, rhs, f) ==
  NluRule(lhs, rhs,
          Semantics([op |-> "join"], 0), Semantics(f, 0), <<>>, Tense_default)

score(rule, s) == [rule EXCEPT !.split.score = s]

split_same == [op |-> "same"]
split_wrap == [op |-> "wrap"]
split_number(n) == [op |-> "number", n |-> n]
split_operator(f) == [op |-> "operator", f |-> f]

\* tests::make_grammar of generator.rs.
ArithmeticRules(deepness) ==
  << score(make_rule(0, <<Sy(1)>>, split_same), 0),
     score(make_rule(1, <<Sy(2)>>, split_same), 0 - deepness),
     make_rule(1, <<Sy(1), Te("+"), Sy(2)>>, split_operator("add")),
     make_rule(1, <<Sy(1), Te("-"), Sy(2)>>, split_operator("sub")),
     score(make_rule(2, <<Sy(3)>>, split_same), 0 - deepness),
     make_rule(2, <<Sy(2), Te("*"), Sy(3)>>, split_operator("mul")),
     make_rule(2, <<Sy(2), Te("/"), Sy(3)>>, split_operator("div")),
     make_rule(3, <<Te("("), Sy(1), Te(")")>>, split_wrap) >>
    \o [n \in 1..(MaxDigit + 1) |-> make_rule(3, <<Te(ToString(n - 1))>>, split_number(n - 1))]

\* tests::make_rule of corrector.rs: merge and split through a Json template.
make_template_rule(lhs, rhs, text, is, base) ==
  LET n == Len(rhs)
      semantics == [op |-> "template", text |-> text, n |-> n]
  IN NluRule(lhs, rhs,
             Semantics(semantics, 0), Semantics(semantics, 0),
             IF is = <<>> THEN [i \in 1..n |-> i - 1] ELSE is, base)

\* A grammar over the vocabulary below, in the manner of tests::make_grammar of
\* corrector.rs; names are $Root $Num $Noun.
AgreementRules ==
  << make_template_rule(0, <<Sy(1), Sy(2)>>, "{c: $0, n: $1}", <<>>, tense(<<".", ".">>)),
     make_template_rule(0, <<Te("%adj"), Te("%noun"), Te("%verb")>>, "{a: $0, n: $1, v: $2}", <<>>,
                        tense(<<".", ".">>)),
     make_template_rule(0, <<Sy(2)>>, "[$0, $0]", <<>>, tense(<<".", ".">>)),
     make_template_rule(1, <<Te("ek")>>, "1", <<>>, tense(<<"s", ".">>)),
     make_template_rule(1, <<Te("do")>>, "2", <<>>, tense(<<"p", ".">>)),
     make_template_rule(2, <<Te("admi")>>, "'m'", <<>>, tense(<<"s", "m">>)),
     make_template_rule(2, <<Te("admiyo")>>, "'m'", <<>>, tense(<<"p", "m">>)),
     make_template_rule(2, <<Te("aurat"), Te("%adj")>>, "[$1]", <<1>>, tense(<<"s", "f">>)),
     make_template_rule(0, <<Sy(1), Sy(2)>>, "{c: $0, n: $1}", <<0>>, tense(<<".", ".">>)) >>

NluGrammarNames == {"arithmetic", "agreement"}

\* Grammar {lexer, names, rules, start}.
NluGrammar(name, deepness) ==
  IF name = "arithmetic"
  THEN [lexer |-> "CharacterLexer", names |-> 4, rules |-> ArithmeticRules(deepness), start |-> 0]
  ELSE [lexer |-> "HindiLexer", names |-> 3, rules |-> AgreementRules, start |-> 0]

(***************************************************************************)
(* Lexers.  CharacterLexer is the lexer of the tests of generator.rs;      *)
(* HindiLexer (hindi/lexer.rs) is built from a vocabulary of entries       *)
(* {head, latin, scores, tenses, value}.                                   *)
(***************************************************************************)
\* CharacterLexer::unlex: the split value 0 is the default.
CharacterLexer_unlex(name, value) ==
  IF Len(name) = 1 /\ value = 0
  THEN <<NluMatch(<<>>, EmptyMap, <<name>>)>>
  ELSE <<>>

\* An Entry of hindi/vocabulary.rs; latin is a sequence of letters.
Entry(head, latin, scores, tenses, value) ==
  [head |-> head, latin |-> latin, scores |-> scores, tenses |-> tenses, value |-> value]

\* create_xentry: the texts keep "head" and "latin".
create_xentry(entry) ==
  [match_rc |-> NluMatch(entry.tenses, [head |-> entry.head, latin |-> entry.latin], entry.value),
   scores |-> entry.scores,
   value_str |-> repr("json", entry.value)]

\* A word of a class: its scores are {"%class": 0}.
Word(class, head, latin, codes, value) ==
  Entry(head, latin, [k \in {class} |-> 0],
        [i \in 1..Len(codes) |-> tense(codes[i])], JString(value))

\* A word that rules name literally: its scores are {latin: 0}; no tense.
Literal(name, latin) ==
  Entry(name, latin, [k \in {name} |-> 0], <<>>, Unknown)

\* build_vocabulary(text), for a small lexicon.
build_vocabulary ==
  << Word("%adj", "adj-bara", <<"b", "a", "r", "a">>, << <<"s", "m">> >>, "b"),
     Word("%adj", "adj-bara", <<"b", "a", "r", "e">>, << <<"p", "m">> >>, "b"),
     Word("%adj", "adj-bara", <<"b", "a", "r", "i">>, << <<".", "f">> >>, "b"),
     Word("%adj", "adj-mota", <<"m", "o", "t", "a">>, << <<"s", "m">> >>, "o"),
     Word("%noun", "noun-larka", <<"l", "a", "r", "k", "a">>, << <<"s", "m">> >>, "l"),
     Word("%noun", "noun-larka", <<"l", "a", "r", "k", "i">>, << <<"s", "f">> >>, "l"),
     Word("%noun", "noun-larka", <<"l", "a", "r", "k", "i", "y", "a">>, << <<"p", "f">> >>, "l"),
     Word("%noun", "noun-ghar", <<"g", "h", "a", "r">>, << <<"s", "m">>, <<"p", "m">> >>, "g"),
     Word("%verb", "verb-hai", <<"h", "a", "i">>, << <<"s", ".">> >>, "h"),
     Word("%verb", "verb-hai", <<"h", "a", "i", "n">>, << <<"p", ".">> >>, "h"),
     Literal("ek", <<"e", "k">>),
     Literal("do", <<"d", "o">>),
     Literal("admi", <<"a", "d", "m", "i">>),
     Literal("admiyo", <<"a", "d", "m", "i", "y", "o">>),
     Literal("aurat", <<"a", "u", "r", "a", "t">>) >>

\* HindiLexer::new: the entries by head and by name, in vocabulary order.
Vocabulary == [i \in 1..Len(build_vocabulary) |-> create_xentry(build_vocabulary[i])]
from_head(head) == SelectSeq(Vocabulary, LAMBDA x : x.match_rc.texts.head = head)
from_name(name) == SelectSeq(Vocabulary, LAMBDA x : name \in DOMAIN x.scores)

RECURSIVE common_prefix(_, _)
common_prefix(a, b) ==
  IF a = <<>> \/ b = <<>> \/ Head(a) # Head(b) THEN <<>>
  ELSE <<Head(a)>> \o common_prefix(Tail(a), Tail(b))

\* fold(acc, max) over a sequence of numbers.
RECURSIVE max_fold(_, _)
max_fold(xs, acc) == IF xs = <<>> THEN acc ELSE max_fold(Tail(xs), Max2(acc, Head(xs)))

\* HindiLexer::fix.
HindiLexer_fix(m, t) ==
  IF "head" \notin DOMAIN m.texts \/ "latin" \notin DOMAIN m.texts THEN <<>>
  ELSE LET value_str == repr("json", m.value)
           check_entry(x) ==
             /\ x.value_str = value_str
             /\ \E i \in 1..Len(x.match_rc.tenses) : agree(x.match_rc.tenses[i], t)
           prefix_score(x) == Len(common_prefix(x.match_rc.texts.latin, m.texts.latin))
           by_value == SelectSeq(from_head(m.texts.head), check_entry)
           max_score == max_fold([i \in 1..Len(by_value) |-> prefix_score(by_value[i])], 0)
           by_score == SelectSeq(by_value, LAMBDA x : prefix_score(x) = max_score)
       IN [i \in 1..Len(by_score) |-> by_score[i].match_rc]

\* default_match of hindi/lexer.rs.
default_match(text) == NluMatch(<<>>, [latin |-> text], JText(text))

\* HindiLexer::unlex; value is an Option<T>.
HindiLexer_unlex(name, value) ==
  IF name = "%token"
  THEN IF value.some /\ value.value.t = "String"
       THEN <<default_match(text_chars(value.value))>> ELSE <<>>
  ELSE LET named == from_name(name)
           entries == IF value.some
                      THEN SelectSeq(named, LAMBDA x : x.value_str = repr("json", value.value))
                      ELSE named
           name_score(x) == IF name \in DOMAIN x.scores THEN x.scores[name] ELSE NEG_INFINITY
           max == max_fold([i \in 1..Len(entries) |-> name_score(entries[i])], NEG_INFINITY)
           best == SelectSeq(entries, LAMBDA x : name_score(x) = max)
       IN [i \in 1..Len(best) |-> best[i].match_rc]

unlex(g, name, value) ==
  IF g.lexer = "CharacterLexer" THEN CharacterLexer_unlex(name, value)
  ELSE HindiLexer_unlex(name, value)

(***************************************************************************)
(* The rules' callbacks.                                                   *)
(***************************************************************************)
\* f32 division as split_operator compares it: exact quotients only.
operate(f, a, b) ==
  CASE f = "add" -> Some(a + b)
    [] f = "sub" -> Some(a - b)
    [] f = "mul" -> Some(a * b)
    [] f = "div" -> IF b # 0 /\ a % b = 0 THEN Some(a \div b) ELSE None

RECURSIVE operator_pairs(_, _, _)
operator_pairs(f, x, at) ==
  IF at >= (MaxDigit + 1) * (MaxDigit + 1) THEN <<>>
  ELSE LET a == at \div (MaxDigit + 1)
           b == at % (MaxDigit + 1)
       IN (IF operate(f, a, b) = Some(x) THEN << <<a, 0, b>> >> ELSE <<>>)
            \o operator_pairs(f, x, at + 1)

\* entry[i] = Some(y) for each (i, y) of the option with i < n.
RECURSIVE fill_entry(_, _, _)
fill_entry(entry, option, n) ==
  IF option = <<>> THEN entry
  ELSE fill_entry(IF Head(option).i < n
                  THEN [entry EXCEPT ![Head(option).i + 1] = Some(Head(option).x)]
                  ELSE entry,
                  Tail(option), n)

\* (rule.split.callback)(value).
call_split(rule, value) ==
  LET f == rule.split.callback IN
  CASE f.op = "same" -> << <<value>> >>
    [] f.op = "wrap" -> << <<0, value, 0>> >>
    [] f.op = "number" -> IF value = f.n THEN << <<0>> >> ELSE <<>>
    [] f.op = "operator" -> operator_pairs(f.f, value, 0)
    [] f.op = "template" ->
         LET found == IF value.some THEN split(template(f.text), value.value) ELSE << <<>> >>
         IN [i \in 1..Len(found) |-> fill_entry([j \in 1..f.n |-> None], found[i], f.n)]

\* (rule.merge.callback)(values).
call_merge(rule, values) ==
  LET f == rule.merge.callback IN
  CASE f.op = "join" -> Concat(values)
    [] f.op = "template" ->
         merge(template(f.text), [i \in 1..Len(values) |-> Pair(i - 1, values[i])])

\* Derivation::new.
Derivation_new(children, g, r) ==
  [children |-> children, rule |-> r,
   value |-> call_merge(g.rules[r], [i \in 1..Len(children) |-> ChildValue(children[i])])]

(***************************************************************************)
(* The generator (nlu/generator.rs).  The recursion of generate_from_list, *)
(* generate_from_rule and generate_from_memo is kept as a stack of frames; *)
(* a State is {memo, rng, stack, ret}, ret being the value a callee has    *)
(* just returned to the frame on top.                                      *)
(***************************************************************************)
\* The random source: rand::rngs::StdRng, as a small congruential generator.
RngStates == 32
rng_next(rng) == (5 * rng + 3) % RngStates
\* rng.gen::<usize>() and the numerator over RngUnit of rng.gen::<f32>().
RngUnit == 8
gen(rng) == rng_next(rng) \div (RngStates \div RngUnit)

\* 2^score as a multiple of 2^-ScoreShift; 2^-inf is 0.
ScoreShift == 1
powf(s) == IF s = NEG_INFINITY THEN 0 ELSE Pow2(s + ScoreShift)

ListFrame(rules, value) ==
  [f |-> "list", rules |-> rules, value |-> value, at |-> 1, scores |-> <<>>]
RuleFrame(g, r, value) ==
  [f |-> "rule", rule |-> r, value |-> value, candidates |-> call_split(g.rules[r], value),
   at |-> 1, children |-> <<>>, options |-> <<>>]
MemoFrame(term, value) == [f |-> "memo", term |-> term, value |-> value]

NoReturn == [pending |-> FALSE]
Return(tree) == [pending |-> TRUE, tree |-> tree]

Top(st) == st.stack[Len(st.stack)]
Pop(st) == SubSeq(st.stack, 1, Len(st.stack) - 1)
SetTop(st, frame) == [st.stack EXCEPT ![Len(st.stack)] = frame]

\* Generator::new: by_name[x], the indices of the rules of symbol x.
by_name(g, x) == SelectSeq([i \in 1..Len(g.rules) |-> i], LAMBDA r : g.rules[r].lhs = x)

\* State::sample: no draw on an empty list.
sample(rng, xs) ==
  IF xs = <<>> THEN [rng |-> rng, tree |-> None]
  ELSE [rng |-> rng_next(rng), tree |-> Some(xs[(gen(rng) % Len(xs)) + 1])]

\* The loop of generate_from_list over the scored derivations.
RECURSIVE choose_scored(_, _, _)
choose_scored(scores, left, at) ==
  IF at > Len(scores) THEN None
  ELSE IF left - RngUnit * scores[at].w < 0 \/ at = Len(scores) THEN Some(scores[at].d)
  ELSE choose_scored(scores, left - RngUnit * scores[at].w, at + 1)

RECURSIVE sum_scores(_)
sum_scores(scores) == IF scores = <<>> THEN 0 ELSE Head(scores).w + sum_scores(Tail(scores))

\* One step of generate_from_list: take the result of the rule just tried,
\* try the next rule, or draw among the scored derivations and return.
generate_from_list(g, st) ==
  LET top == Top(st) IN
  IF st.ret.pending
  THEN LET scored == [w |-> powf(g.rules[top.rules[top.at]].split.score), d |-> st.ret.tree.value]
           scores == IF st.ret.tree.some THEN Append(top.scores, scored) ELSE top.scores
       IN [st EXCEPT !.stack = SetTop(st, [top EXCEPT !.scores = scores, !.at = top.at + 1]),
                     !.ret = NoReturn]
  ELSE IF top.at <= Len(top.rules)
  THEN [st EXCEPT !.stack = Append(st.stack, RuleFrame(g, top.rules[top.at], top.value))]
  ELSE [st EXCEPT !.stack = Pop(st),
                  !.rng = rng_next(st.rng),
                  !.ret = Return(choose_scored(top.scores, gen(st.rng) * sum_scores(top.scores), 1))]

\* generate_from_memo without the sentinel: a miss only opens a frame.
generate_from_memo_unmarked(st, term, value) ==
  LET key == <<term, value>> IN
  IF key \in DOMAIN st.memo
  THEN [st EXCEPT !.ret = Return(st.memo[key])]
  ELSE [st EXCEPT !.stack = Append(st.stack, MemoFrame(term, value))]

\* generate_from_memo up to its call of generate_from_term: a memo hit returns
\* at once; a miss leaves the None sentinel and opens a frame.
generate_from_memo(st, term, value) ==
  LET key == <<term, value>> IN
  IF key \in DOMAIN st.memo
  THEN [st EXCEPT !.ret = Return(st.memo[key])]
  ELSE [st EXCEPT !.memo = Put(st.memo, key, None),
                  !.stack = Append(st.stack, MemoFrame(term, value))]

\* One step of generate_from_rule: take the child just generated, ask for the
\* next child of the candidate, close the candidate, or sample an option.
generate_from_rule(g, st) ==
  LET top == Top(st)
      rule == g.rules[top.rule]
  IN
  IF st.ret.pending
  THEN [st EXCEPT !.stack = SetTop(st, IF st.ret.tree.some
                                       THEN [top EXCEPT !.children = Append(@, st.ret.tree.value)]
                                       ELSE [top EXCEPT !.children = <<>>, !.at = top.at + 1]),
                  !.ret = NoReturn]
  ELSE IF top.at > Len(top.candidates)
  THEN LET drawn == sample(st.rng, top.options)
       IN [st EXCEPT !.stack = Pop(st),
                     !.rng = drawn.rng,
                     !.ret = Return(IF drawn.tree.some
                                    THEN Some(ChildNode(Derivation_new(drawn.tree.value, g, top.rule)))
                                    ELSE None)]
  ELSE IF Len(top.children) = Len(rule.rhs)
  THEN [st EXCEPT !.stack = SetTop(st, [top EXCEPT !.options = Append(@, top.children),
                                                   !.children = <<>>, !.at = top.at + 1])]
  ELSE generate_from_memo(st, rule.rhs[Len(top.children) + 1],
                          top.candidates[top.at][Len(top.children) + 1])

\* The leaf drawn for a terminal, as the Option<Child> kept in the memo.
leaf_tree(drawn) == IF drawn.tree.some THEN Some(ChildLeaf(drawn.tree.value)) ELSE None

\* generate_from_term for a terminal whose result is returned and not kept.
generate_from_terminal_unkept(st, key, drawn) ==
  [st EXCEPT !.stack = Pop(st), !.rng = drawn.rng, !.ret = Return(leaf_tree(drawn))]

\* generate_from_term for a terminal: the leaf is drawn among the matches.
generate_from_terminal(st, key, drawn) ==
  [st EXCEPT !.stack = Pop(st), !.rng = drawn.rng,
             !.memo = Put(st.memo, key, leaf_tree(drawn)), !.ret = Return(leaf_tree(drawn))]

\* generate_from_term, and the rest of generate_from_memo once it returned.
generate_from_term(g, st) ==
  LET top == Top(st)
      key == <<top.term, top.value>>
  IN
  IF st.ret.pending
  THEN [st EXCEPT !.stack = Pop(st), !.memo = Put(st.memo, key, st.ret.tree)]
  ELSE IF top.term.kind = "Symbol"
  THEN [st EXCEPT !.stack = Append(st.stack, ListFrame(by_name(g, top.term.id), top.value))]
  ELSE generate_from_terminal(st, key, sample(st.rng, unlex(g, top.term.name, top.value)))

step(g, st) ==
  CASE Top(st).f = "list" -> generate_from_list(g, st)
    [] Top(st).f = "rule" -> generate_from_rule(g, st)
    [] Top(st).f = "memo" -> generate_from_term(g, st)

RECURSIVE run(_, _)
run(g, st) == IF st.stack = <<>> THEN st ELSE run(g, step(g, st))

\* The end of generate_from_rules: Some(Child::Node(x)) => Rc::try_unwrap(x).ok().
unwrap_node(tree) == IF tree.some /\ ~tree.value.leaf THEN Some(tree.value.node) ELSE None

\* What generate_from_rules returns from its final state, and the rng.
generated(st) == [rng |-> st.rng, result |-> unwrap_node(st.ret.tree)]

\* Generator::generate_from_rules, run to its end.
generate_from_rules(g, memo, rng, rules, value) ==
  generated(run(g, [memo |-> memo, rng |-> rng, stack |-> <<ListFrame(rules, value)>>,
                    ret |-> NoReturn]))

(***************************************************************************)
(* Generation as a process: Generator::generate, one step of the recursion *)
(* at a time.                                                              *)
(***************************************************************************)
\* The seeds given to the random source, the values asked of the arithmetic
\* grammar, and the depth of recursion followed.
MaxSeed == 1
MaxTarget == 2
MaxStack == 60

Deepness == {-1, 0, 1}

Dict1(k1, v1) == JDict(<<JPair(k1, v1)>>)
Dict2(k1, v1, k2, v2) == JDict(<<JPair(k1, v1), JPair(k2, v2)>>)
Dict3(k1, v1, k2, v2, k3, v3) == JDict(<<JPair(k1, v1), JPair(k2, v2), JPair(k3, v3)>>)

\* Values asked of the agreement grammar.
AgreementValues ==
  {Dict2("c", JNumber(c), "n", n) :
     c \in {"1", "2"}, n \in {JString("m"), JList(<<JString("b")>>), JList(<<JString("o")>>)}}
    \cup {Dict3("a", JString(a), "n", JString(n), "v", JString("h")) :
            a \in {"b", "o"}, n \in {"l", "g"}}
    \cup {JList(<<JString("m"), JString("m")>>),
          JList(<<JString("m"), JList(<<JString("b")>>)>>),
          JList(<<JList(<<JString("b")>>), JList(<<JString("b")>>)>>),
          Dict2("n", JString("m"), "c", JNumber("1")),
          JNumber("1"), Unknown}

\* A deepness of f32::INFINITY: the rules $1 -> $2 and $2 -> $3 get the split
\* score 0 - deepness, which is -inf.
InfiniteDeepness == 0 - NEG_INFINITY

GenGrammars ==
  {[name |-> "arithmetic", deepness |-> d] : d \in Deepness \cup {InfiniteDeepness}}
    \cup {[name |-> "agreement", deepness |-> 0]}

GenGrammar == NluGrammar(g_grammar.name, g_grammar.deepness)
GenState == [memo |-> g_memo, rng |-> g_rng, stack |-> g_stack, ret |-> g_ret]

\* let generator = Generator::new(&grammar); generator.generate(&mut rng, &value)
GenInit ==
  /\ g_grammar \in GenGrammars
  /\ g_value \in IF g_grammar.name = "arithmetic" THEN 0..MaxTarget
                 ELSE {None} \cup {Some(v) : v \in AgreementValues}
  /\ g_rng \in 0..MaxSeed
  /\ g_memo = EmptyMap
  /\ g_given = EmptyMap
  /\ g_stack = <<ListFrame(by_name(GenGrammar, GenGrammar.start), g_value)>>
  /\ g_ret = NoReturn
  /\ g_pc = "run"
  /\ g_result = None

Running(kind) ==
  /\ g_pc = "run"
  /\ g_stack # <<>>
  /\ Len(g_stack) <= MaxStack
  /\ Top(GenState).f = kind

Becomes(st) ==
  /\ g_memo' = st.memo
  /\ g_rng' = st.rng
  /\ g_stack' = st.stack
  /\ g_ret' = st.ret
  /\ UNCHANGED <<g_grammar, g_value, g_given, g_pc, g_result, not_generator>>

GenerateFromList == Running("list") /\ Becomes(generate_from_list(GenGrammar, GenState))

GenerateFromRule == Running("rule") /\ Becomes(generate_from_rule(GenGrammar, GenState))

GenerateFromTerm == Running("memo") /\ Becomes(generate_from_term(GenGrammar, GenState))

\* generate_from_rules returns.
GenerateReturns ==
  /\ g_pc = "run"
  /\ g_stack = <<>>
  /\ g_result' = unwrap_node(g_ret.tree)
  /\ g_pc' = "done"
  /\ UNCHANGED <<g_grammar, g_value, g_memo, g_given, g_rng, g_stack, g_ret, not_generator>>

GenNext == GenerateFromList \/ GenerateFromRule \/ GenerateFromTerm \/ GenerateReturns

GenIdle ==
  /\ g_grammar = [name |-> "agreement", deepness |-> 0] /\ g_value = None /\ g_rng = 0
  /\ g_memo = EmptyMap /\ g_given = EmptyMap /\ g_stack = <<>> /\ g_ret = NoReturn
  /\ g_pc = "idle"
  /\ g_result = None

(***************************************************************************)
(* The corrector (nlu/corrector.rs).  A State is {diff, rng, tense}; the   *)
(* model adds a log of the checks that found errors (the path of the leaf  *)
(* or node, its errors, what stood there, whether a replacement came) and  *)
(* whether a debug assertion fired, and a trace of self.tense as see_node   *)
(* hands each child to recurse and as recurse returns.  build is "debug"   *)
(* or "release": debug_assert! evaluates its argument only in a debug      *)
(* build.                                                                  *)
(***************************************************************************)
Right(m) == [right |-> TRUE, match |-> m]
Wrong(errors, old_matches, new_matches) ==
  [right |-> FALSE, errors |-> errors, old_matches |-> old_matches, new_matches |-> new_matches]

LeafEvent(path, errors, old, replaced) ==
  [kind |-> "leaf", path |-> path, errors |-> errors, old |-> ChildLeaf(old), replaced |-> replaced]
NodeEvent(path, errors, old, replaced) ==
  [kind |-> "node", path |-> path, errors |-> errors, old |-> ChildNode(old), replaced |-> replaced]

\* self.tense as recurse is called for the child at path, in the first loop
\* of see_node or (fresh) in the second, and as the call returns.
Entering(path, t, fresh) == [kind |-> "enter", path |-> path, tense |-> t, fresh |-> fresh]
Leaving(path, t, fresh) == [kind |-> "leave", path |-> path, tense |-> t, fresh |-> fresh]

\* Lexer::fix; the lexer of the tests of generator.rs has none (unimplemented!()).
fix(g, m, t) == IF g.lexer = "HindiLexer" THEN HindiLexer_fix(m, t) ELSE <<>>

\* State::fill_memo, from child i on.
RECURSIVE fill_memo(_, _, _, _)
fill_memo(g, tree, memo, i) ==
  IF i > Len(tree.children) THEN memo
  ELSE LET x == tree.children[i]
           term == g.rules[tree.rule].rhs[i]
           here == Put(Put(memo, <<term, None>>, Some(x)), <<term, Some(ChildValue(x))>>, Some(x))
       IN fill_memo(g, tree, IF x.leaf THEN here ELSE fill_memo(g, x.node, here, 1), i + 1)

InvalidPhrasing == <<[category |-> "Invalid phrasing.", should |-> "", was |-> ""]>>

\* State::check_rules.
check_rules(g, t, r) ==
  IF g.rules[r].split.score # NEG_INFINITY THEN check(t, g.rules[r].tense) ELSE InvalidPhrasing

\* The end of rebuild: new.map(Rc::new).unwrap_or(old), and the rng afterwards.
rebuilt(old, new) ==
  [rng |-> new.rng, replaced |-> new.result.some,
   node |-> IF new.result.some THEN new.result.value ELSE old]

\* State::rebuild.
rebuild(g, cs, old) ==
  LET memo == fill_memo(g, old, EmptyMap, 1)
      valid(r) == g.rules[r].lhs = g.rules[old.rule].lhs /\ check_rules(g, cs.tense, r) = <<>>
      rules == SelectSeq([r \in 1..Len(g.rules) |-> r], valid)
  IN rebuilt(old, generate_from_rules(g, memo, cs.rng, rules, Some(old.value)))

\* The diff entry of a corrected leaf, recorded as if the leaf were right.
leaf_diff_right(errors, old, new) == Right(new)

\* The diff entry of see_leaf for a leaf with errors.
leaf_diff(errors, old, new) == Wrong(errors, <<old>>, <<new>>)

\* see_leaf once a leaf has errors: new replaces old if the lexer had a fix,
\* and asserted is what the debug assertion evaluates.
leaf_fixed(build, cs, old, path, errors, fixed, new, asserted) ==
  LET checked == fixed /\ build = "debug" IN
  [cs |-> [cs EXCEPT !.rng = IF fixed THEN rng_next(@) ELSE @,
                     !.tense = IF checked THEN asserted.tense ELSE @,
                     !.panicked = @ \/ (checked /\ asserted.errors # <<>>),
                     !.diff = Append(@, leaf_diff(errors, old, new)),
                     !.events = Append(@, LeafEvent(path, errors, old, fixed))],
   child |-> ChildLeaf(new)]

\* see_leaf that records nothing for a leaf without errors.
leaf_checked_silent(build, cs, old, path, first, fixes) ==
  IF first.errors = <<>>
  THEN [cs |-> [cs EXCEPT !.tense = first.tense], child |-> ChildLeaf(old)]
  ELSE LET new == IF fixes = <<>> THEN old ELSE fixes[(gen(cs.rng) % Len(fixes)) + 1]
       IN leaf_fixed(build, cs, old, path, first.errors, fixes # <<>>, new,
                     union_checked(cs.tense, new.tenses))

\* see_leaf after its check (first) and with the fixes of the lexer.
leaf_checked(build, cs, old, path, first, fixes) ==
  IF first.errors = <<>>
  THEN [cs |-> [cs EXCEPT !.tense = first.tense, !.diff = Append(@, Right(old))],
        child |-> ChildLeaf(old)]
  ELSE LET new == IF fixes = <<>> THEN old ELSE fixes[(gen(cs.rng) % Len(fixes)) + 1]
       IN leaf_fixed(build, cs, old, path, first.errors, fixes # <<>>, new,
                     union_checked(cs.tense, new.tenses))

\* State::see_leaf.
see_leaf(g, build, cs, old, path) ==
  leaf_checked(build, cs, old, path, union_checked(cs.tense, old.tenses), fix(g, old, cs.tense))

\* xs[i] = x, for a list xs.
Replace(xs, i, x) == [k \in 1..Len(xs) |-> IF k = i THEN x ELSE xs[k]]

RECURSIVE see_node(_, _, _, _, _)
RECURSIVE visit(_, _, _, _, _, _, _, _, _)

\* Node(x) => Node(self.see_node(x)).
node_child(seen) == [cs |-> seen.cs, child |-> ChildNode(seen.node)]

\* State::recurse.
recurse(g, build, cs, old, path) ==
  IF old.leaf THEN see_leaf(g, build, cs, old.match, path)
  ELSE node_child(see_node(g, build, cs, old.node, path))

\* The body of the loops with the tense a child of the second loop leaves
\* kept as the one to restore.
visit_child_leaking(g, build, children, child_diffs, listed, unlisted, saved, path, i, fresh, seen) ==
  visit(g, build,
        [seen.cs EXCEPT !.diff = child_diffs[i], !.tense = IF fresh THEN Tense_default ELSE @,
                        !.trace = Append(@, Leaving(Append(path, i), seen.cs.tense, fresh))],
        Replace(children, i, seen.child),
        Replace(child_diffs, i, seen.cs.diff),
        listed, unlisted, IF fresh THEN Some(seen.cs.tense) ELSE saved, path)

\* The body of the loops of see_node for child i (from 1), once corrected:
\* the child is stored and its diff swapped into child_diffs; the second loop
\* resets the tense.
visit_child(g, build, children, child_diffs, listed, unlisted, saved, path, i, fresh, seen) ==
  visit(g, build,
        [seen.cs EXCEPT !.diff = child_diffs[i], !.tense = IF fresh THEN Tense_default ELSE @,
                        !.trace = Append(@, Leaving(Append(path, i), seen.cs.tense, fresh))],
        Replace(children, i, seen.child),
        Replace(child_diffs, i, seen.cs.diff),
        listed, unlisted, saved, path)

\* The two loops of see_node: over rule.precedence (listed), then, the tense
\* saved and reset, over the children not checked (unlisted); at the end the
\* saved tense is restored.
visit(g, build, cs, children, child_diffs, listed, unlisted, saved, path) ==
  LET fresh == listed = <<>>
      swap == fresh /\ ~saved.some
      kept == IF swap THEN Some(cs.tense) ELSE saved
      now == IF swap THEN [cs EXCEPT !.tense = Tense_default] ELSE cs
      i == (IF fresh THEN Head(unlisted) ELSE Head(listed)) + 1
  IN IF fresh /\ unlisted = <<>>
     THEN [cs |-> [now EXCEPT !.tense = kept.value], children |-> children,
           child_diffs |-> child_diffs]
     ELSE visit_child(g, build, children, child_diffs,
                      IF fresh THEN <<>> ELSE Tail(listed),
                      IF fresh THEN Tail(unlisted) ELSE unlisted,
                      kept, path, i, fresh,
                      recurse(g, build,
                              [now EXCEPT !.trace = Append(@, Entering(Append(path, i), now.tense, fresh))],
                              children[i], Append(path, i)))

\* The end of see_node with the children's entries kept beside the node's.
see_node_end_nested(cs, old, errors, new, seen) ==
  LET node == [children |-> seen.children, rule |-> new.rule, value |-> new.value] IN
  [cs |-> [seen.cs EXCEPT
             !.diff = IF errors = <<>> THEN cs.diff \o Concat(seen.child_diffs)
                      ELSE cs.diff \o Concat(seen.child_diffs)
                             \o <<Wrong(errors, matches(old), matches(node))>>],
   node |-> node]

\* The end of see_node: the state restored and the diff computed.
see_node_end(cs, old, errors, new, seen) ==
  LET node == [children |-> seen.children, rule |-> new.rule, value |-> new.value] IN
  [cs |-> [seen.cs EXCEPT
             !.diff = IF errors = <<>> THEN cs.diff \o Concat(seen.child_diffs)
                      ELSE Append(cs.diff, Wrong(errors, matches(old), matches(node)))],
   node |-> node]

\* see_node from self.tense.union(&new.rule.tense) on.
see_node_new(g, build, cs, old, path, errors, new) ==
  LET rule == g.rules[new.node.rule]
      n == Len(rule.rhs)
      unlisted(i) == \A j \in 1..Len(rule.precedence) : rule.precedence[j] # i
      entered == [cs EXCEPT !.rng = new.rng,
                            !.tense = union(cs.tense, rule.tense),
                            !.diff = <<>>,
                            !.events = IF errors = <<>> THEN @
                                       ELSE Append(@, NodeEvent(path, errors, old, new.replaced))]
  IN see_node_end(cs, old, errors, new.node,
                  visit(g, build, entered, new.node.children, [i \in 1..n |-> <<>>],
                        rule.precedence, SelectSeq([i \in 1..n |-> i - 1], unlisted),
                        None, path))

\* if errors.is_empty() { old.clone() } else { self.rebuild(old.clone()) }
rebuild_if(g, cs, old, errors) ==
  IF errors = <<>> THEN [rng |-> cs.rng, replaced |-> FALSE, node |-> old]
  ELSE rebuild(g, cs, old)

\* State::see_node.
see_node(g, build, cs, old, path) ==
  see_node_new(g, build, cs, old, path, check_rules(g, cs.tense, old.rule),
               rebuild_if(g, cs, old, check_rules(g, cs.tense, old.rule)))

\* The Correction {diff, tree} of a finished state, with the log.
Correction(new) ==
  [diff |-> new.cs.diff, tree |-> new.node,
   events |-> new.cs.events, panicked |-> new.cs.panicked,
   trace |-> new.cs.trace, tense |-> new.cs.tense]

\* Corrector::correct.
correct(g, build, rng, tree) ==
  Correction(see_node(g, build,
                      [diff |-> <<>>, rng |-> rng, tense |-> Tense_default,
                       events |-> <<>>, panicked |-> FALSE, trace |-> <<>>],
                      tree, <<>>))

(***************************************************************************)
(* Correction as a process: correct is called on a derivation of the       *)
(* agreement grammar, then again on the tree it returned, with the same    *)
(* seed.                                                                   *)
(***************************************************************************)
\* The grammar given to the corrector has one more phrasing of $Root, which
\* parses and is never generated (split score -inf): $Root -> $Noun $Noun.
PhrasingRule ==
  score(make_template_rule(0, <<Sy(2), Sy(2)>>, "[$0, $1]", <<>>, tense(<<".", ".">>)), NEG_INFINITY)
AgreementGrammar == [NluGrammar("agreement", 0) EXCEPT !.rules = Append(@, PhrasingRule)]

\* The leaves a lexer can give a terminal: the entries that score its name.
Leaves(name) == {ChildLeaf(from_name(name)[i].match_rc) : i \in 1..Len(from_name(name))}

\* All sequences taking their i-th element from choices[i].
RECURSIVE Products(_)
Products(choices) ==
  IF choices = <<>> THEN {<<>>}
  ELSE {<<x>> \o rest : x \in Head(choices), rest \in Products(Tail(choices))}

\* The derivations of a symbol; the grammar is not recursive.
RECURSIVE Derivations(_, _)
Derivations(g, x) ==
  LET choices(r) == [i \in 1..Len(g.rules[r].rhs) |->
                       IF g.rules[r].rhs[i].kind = "Terminal" THEN Leaves(g.rules[r].rhs[i].name)
                       ELSE {ChildNode(d) : d \in Derivations(g, g.rules[r].rhs[i].id)}]
  IN UNION {{Derivation_new(children, g, r) : children \in Products(choices(r))} :
              r \in {r \in 1..Len(g.rules) : g.rules[r].lhs = x}}

\* rebuild (corrector.rs): the memo is filled from a derivation old, and
\* generate_from_rules is called with it, the rules of old's symbol that
\* agree with the context, and old's value.
SeedContexts == {Tense_default} \cup {AgreementGrammar.rules[r].tense : r \in 1..Len(AgreementGrammar.rules)}
SeededInit ==
  /\ g_grammar = [name |-> "agreement", deepness |-> 0]
  /\ g_rng \in 0..MaxSeed
  /\ \E x \in 0..(AgreementGrammar.names - 1) : \E old \in Derivations(AgreementGrammar, x) :
       \E t \in SeedContexts :
         /\ g_value = Some(old.value)
         /\ g_memo = fill_memo(AgreementGrammar, old, EmptyMap, 1)
         /\ g_stack = <<ListFrame(SelectSeq(by_name(AgreementGrammar, x),
                                           LAMBDA r : check_rules(AgreementGrammar, t, r) = <<>>),
                                 g_value)>>
  /\ g_given = g_memo
  /\ g_ret = NoReturn
  /\ g_pc = "run"
  /\ g_result = None

NoCorrection ==
  [diff |-> <<>>, tree |-> <<>>, events |-> <<>>, panicked |-> FALSE,
   trace |-> <<>>, tense |-> Tense_default]

CorrectorInit ==
  /\ c_tree \in Derivations(AgreementGrammar, AgreementGrammar.start)
  /\ c_seed \in 0..MaxSeed
  /\ c_build \in {"debug", "release"}
  /\ c_first = NoCorrection
  /\ c_second = NoCorrection
  /\ c_pc = "first"

\* let correction = corrector.correct(&mut rng, &tree);
Correct ==
  /\ c_pc = "first"
  /\ c_first' = correct(AgreementGrammar, c_build, c_seed, c_tree)
  /\ c_pc' = "second"
  /\ UNCHANGED <<c_tree, c_seed, c_build, c_second, not_corrector>>

\* corrector.correct(&mut rng, &correction.tree), rng seeded as before.
CorrectAgain ==
  /\ c_pc = "second"
  /\ ~c_first.panicked
  /\ c_second' = correct(AgreementGrammar, c_build, c_seed, c_first.tree)
  /\ c_pc' = "done"
  /\ UNCHANGED <<c_tree, c_seed, c_build, c_first, not_corrector>>

CorrectorNext == Correct \/ CorrectAgain

CorrectorIdle ==
  /\ c_tree = <<>> /\ c_seed = 0 /\ c_build = "debug"
  /\ c_first = NoCorrection /\ c_second = NoCorrection /\ c_pc = "idle"

(***************************************************************************)
(* The semantics of a compiled rule (nlu/fantasy.rs): process_rules hands  *)
(* each RuleNode to get_template and get_semantics, and the grammar keeps  *)
(* the two callbacks.  An index past the end of a Vec panics.              *)
(***************************************************************************)
MaxIndex == 2

ItemNode(at, optional) == [index |-> at, optional |-> optional]
RuleNode(rhs, text) == [rhs |-> rhs, template |-> text]

\* rule.rhs.iter().fold(None, |a, x| x.index.map(|y| max(y, a.unwrap_or(y)))).
RECURSIVE limit(_, _, _)
limit(rhs, a, i) ==
  IF i > Len(rhs) THEN a
  ELSE LET y == rhs[i].index
       IN limit(rhs,
                IF y.some
                THEN Some(IF a.some /\ a.value > y.value THEN a.value ELSE y.value)
                ELSE None,
                i + 1)

\* slots[*y] = Some((i, x.optional)) for each term in turn: the last term
\* that names y keeps the slot.
indexed_slots(rhs, n) ==
  [y \in 1..n |->
     LET terms == {i \in 1..Len(rhs) : rhs[i].index = Some(y - 1)}
         i == CHOOSE i \in terms : \A j \in terms : j <= i
     IN IF terms = {} THEN NoSlot ELSE Slot(i - 1, rhs[i].optional)]

\* get_template writes slots[*y] in a Vec of limit + 1 entries.
get_template_panics(rule) ==
  /\ rule.template.some
  /\ limit(rule.rhs, None, 1).some
  /\ \E i \in 1..Len(rule.rhs) :
       /\ rule.rhs[i].index.some
       /\ rule.rhs[i].index.value > limit(rule.rhs, None, 1).value

get_template(n, rule) ==
  IF ~rule.template.some THEN DefaultTemplate
  ELSE SlotTemplate_new(
         n,
         IF limit(rule.rhs, None, 1).some
         THEN indexed_slots(rule.rhs, limit(rule.rhs, None, 1).value + 1)
         ELSE [i \in 1..n |-> Slot(i - 1, rule.rhs[i].optional)],
         template(rule.template.value))

Returned(value) == [panicked |-> FALSE, value |-> value]
Panicked == [panicked |-> TRUE, value |-> <<>>]

\* SlotTemplate::split on one Args of the inner template: self.slots[k] is
\* read for each pair in turn until one pair rejects the Args.
RECURSIVE slot_panics(_, _)
slot_panics(slots, xs) ==
  IF xs = <<>> THEN FALSE
  ELSE IF Head(xs).i >= Len(slots) THEN TRUE
  ELSE LET slot == slots[Head(xs).i + 1]
           rejected == IF slot.some THEN empty(Head(xs).x) /\ ~slot.optional
                       ELSE ~empty(Head(xs).x)
       IN ~rejected /\ slot_panics(slots, Tail(xs))

\* SlotTemplate::split given the splits of its inner template.
SlotTemplate_split(slots, inner) ==
  IF \E n \in 1..Len(inner) : slot_panics(slots, inner[n]) THEN Panicked
  ELSE Returned(Concat([n \in 1..Len(inner) |-> slot_args(slots, inner[n], <<>>)]))

\* template.split(y) for the template that get_template returned.
template_split(t, y) ==
  IF t.k = "Slot" THEN SlotTemplate_split(t.slots, split(t.c[1], y))
  ELSE Returned(split(t, y))

\* The entries of the split callback, one per option.
entries(n, found) ==
  IF found.panicked THEN Panicked
  ELSE Returned([i \in 1..Len(found.value) |->
                   fill_entry([j \in 1..n |-> None], found.value[i], n)])

\* x.as_ref().map(|y| split.split(y)).unwrap_or(vec![vec![]]).
found_options(t, x) == IF x.some THEN template_split(t, x.value) ELSE Returned(<< <<>> >>)

\* The split callback of get_semantics.
split_semantics(n, t, x) == entries(n, found_options(t, x))

\* The merge callback of get_semantics: the children's values, enumerated.
merge_semantics(t, values) ==
  Returned(merge(t, [i \in 1..Len(values) |-> Pair(i - 1, values[i])]))

\* The rules in use: one or two terms, each with or without an index and a
\* suffix-?, and a template text or none.
ItemNodes ==
  {ItemNode(at, optional) :
     at \in {None} \cup {Some(y) : y \in 0..MaxIndex}, optional \in BOOLEAN}
RuleTemplates ==
  {None} \cup {Some(text) : text \in {"[$0]", "[$1]", "[$0, ...$1]", "[...$0, $1]",
                                      "{k: $0, m: $1}", "[$0, $0]"}}
RuleNodes ==
  {RuleNode(rhs, text) :
     rhs \in {<<a>> : a \in ItemNodes} \cup {<<a, b>> : a \in ItemNodes, b \in ItemNodes},
     text \in RuleTemplates}
RuleValues ==
  {Unknown, JNumber("1"), JString("x"), JDict(<<JPair("k", JNumber("1"))>>),
   JDict(<<JPair("k", JNumber("1")), JPair("m", JNumber("2"))>>)} \cup JsonLists
ChildValues == {Unknown, JNumber("1"), JList(<<JNumber("2")>>)}

NotCalled == [panicked |-> FALSE, value |-> <<>>]

\* compile returned the grammar, so get_template returned for each rule.
RuleInit ==
  /\ r_rule \in {rule \in RuleNodes : ~get_template_panics(rule)}
  /\ r_x \in {None} \cup {Some(x) : x \in RuleValues}
  /\ r_found = NotCalled
  /\ r_split = NotCalled
  /\ r_merged = NotCalled
  /\ r_pc = "split"

\* (rule.split.callback)(&x).
CallSplit ==
  /\ r_pc = "split"
  /\ r_found' = found_options(get_template(Len(r_rule.rhs), r_rule), r_x)
  /\ r_split' = entries(Len(r_rule.rhs), r_found')
  /\ r_pc' = "merge"
  /\ UNCHANGED <<r_rule, r_x, r_merged, not_rule>>

\* (rule.merge.callback)(&values) on one value for each term of the rule.
CallMerge ==
  /\ r_pc = "merge"
  /\ \E values \in SeqsUpTo(ChildValues, Len(r_rule.rhs)) :
       /\ Len(values) = Len(r_rule.rhs)
       /\ r_merged' = merge_semantics(get_template(Len(r_rule.rhs), r_rule), values)
  /\ r_pc' = "done"
  /\ UNCHANGED <<r_rule, r_x, r_found, r_split, not_rule>>

RuleNext == CallSplit \/ CallMerge

RuleIdle ==
  /\ r_rule = RuleNode(<<>>, None) /\ r_x = None /\ r_found = NotCalled /\ r_split = NotCalled
  /\ r_merged = NotCalled /\ r_pc = "idle"

(***************************************************************************)
(* validate (nlu/fantasy.rs): the checks compile ends with.  A grammar is  *)
(* its names, its rules (lhs and rhs), its start symbol and the terminals  *)
(* its lexer can unlex.                                                    *)
(***************************************************************************)
MaxRules == 2

Ok == [ok |-> TRUE, message |-> "", names |-> <<>>]
Err(message, names) == [ok |-> FALSE, message |-> message, names |-> names]

\* xs.sort() on names: the names in use, in the order of their text.
SortedNames == <<"$A", "$B", "$ROOT", "a", "z">>
sorted_names(xs) == SelectSeq(SortedNames, LAMBDA x : x \in xs)

\* get_warning.
get_warning(xs, message) == IF xs = {} THEN Ok ELSE Err(message, sorted_names(xs))

\* The lhs, rhs and terminals sets that validate collects.
collect_lhs(g) == {g.rules[i].lhs : i \in 1..Len(g.rules)}
rhs_symbols(rule) ==
  {rule.rhs[j].id : j \in {j \in 1..Len(rule.rhs) : rule.rhs[j].kind = "Symbol"}}
rhs_terminals(rule) ==
  {rule.rhs[j].name : j \in {j \in 1..Len(rule.rhs) : rule.rhs[j].kind = "Terminal"}}
collect_rhs(g) == {g.start} \cup UNION {rhs_symbols(g.rules[i]) : i \in 1..Len(g.rules)}
collect_terminals(g) == UNION {rhs_terminals(g.rules[i]) : i \in 1..Len(g.rules)}

\* lexer.unlex(&x, &None).is_empty().
unlex_is_empty(g, x) == x \notin g.lexer

validate(g) ==
  LET dead_end == {g.names[x + 1] : x \in collect_rhs(g) \ collect_lhs(g)}
      unreachable == {g.names[x + 1] : x \in collect_lhs(g) \ collect_rhs(g)}
      unknown == {x \in collect_terminals(g) : unlex_is_empty(g, x)}
  IN IF dead_end # {} THEN get_warning(dead_end, "Dead-end symbols")
     ELSE IF unreachable # {} THEN get_warning(unreachable, "Unreachable symbols")
     ELSE get_warning(unknown, "Unknown terminals")

\* The grammars in use: the symbols $ROOT, $A and $B, each with up to
\* MaxRules of the right-hand sides below; the lexer knows the terminal a.
ValidateNames == <<"$ROOT", "$A", "$B">>
ValidateRhs ==
  <<<<Terminal("a")>>, <<Terminal("z")>>, <<Symbol(1)>>, <<Symbol(2)>>,
    <<Symbol(1), Terminal("a")>>, <<Symbol(2), Symbol(1)>>>>
RhsList(picked) ==
  LET at == SelectSeq([i \in 1..Len(ValidateRhs) |-> i], LAMBDA i : i \in picked)
  IN [k \in 1..Len(at) |-> ValidateRhs[at[k]]]
RhsLists ==
  {RhsList(picked) :
     picked \in {x \in SUBSET (1..Len(ValidateRhs)) : Cardinality(x) <= MaxRules}}
RulesOf(lhs, xs) == [i \in 1..Len(xs) |-> [lhs |-> lhs, rhs |-> xs[i]]]
ValidateGrammars ==
  {[names |-> ValidateNames, rules |-> RulesOf(0, r) \o RulesOf(1, a) \o RulesOf(2, b),
    start |-> 0, lexer |-> {"a"}] :
     r \in RhsLists, a \in RhsLists, b \in RhsLists}

ValidateInit ==
  /\ v_grammar \in ValidateGrammars
  /\ v_result = Ok
  /\ v_pc = "call"

\* validate(state.grammar).
Validate ==
  /\ v_pc = "call"
  /\ v_result' = validate(v_grammar)
  /\ v_pc' = "done"
  /\ UNCHANGED <<v_grammar, not_validate>>

ValidateNext == Validate

ValidateIdle ==
  /\ v_grammar = [names |-> <<>>, rules |-> <<>>, start |-> 0, lexer |-> {}]
  /\ v_result = Ok /\ v_pc = "idle"

(***************************************************************************)
(* The string interner (nlu/tense.rs).  MAP is (id_to_str, str_to_id); the *)
(* two are written together, so the model keeps id_to_str and looks ids up *)
(* in it.  A table of some 2^16 strings is kept as the number of strings   *)
(* interned first, text(0), text(1), ..., and the words interned after     *)
(* them.                                                                   *)
(***************************************************************************)
InternedId_bits == 16
InternedId_max_value == 2 ^ InternedId_bits - 1
MaxWords == 3

Filled(n) == [word |-> FALSE, n |-> n]
Fresh(n) == [word |-> TRUE, n |-> n]
Table(filled, more) == [filled |-> filled, more |-> more]

\* id_to_str.len().
table_len(table) == table.filled + Len(table.more)

\* str_to_id.get(value).
str_to_id(table, value) ==
  IF ~value.word
  THEN IF value.n < table.filled THEN Some(value.n) ELSE None
  ELSE IF \E k \in 1..Len(table.more) : table.more[k] = value
       THEN Some(table.filled + (CHOOSE k \in 1..Len(table.more) : table.more[k] = value) - 1)
       ELSE None

InternOk(id) == [ok |-> TRUE, id |-> id]
InternErr == [ok |-> FALSE, id |-> 0]

\* Interned::new with the limit test of a wider id type.
Interned_new_wide(table, value) ==
  IF str_to_id(table, value).some
  THEN [table |-> table, result |-> InternOk(str_to_id(table, value).value)]
  ELSE IF table_len(table) > 2 * InternedId_max_value
  THEN [table |-> table, result |-> InternErr]
  ELSE [table |-> Table(table.filled, Append(table.more, value)),
        result |-> InternOk(table_len(table) % (2 ^ InternedId_bits))]
\* Interned::new: the table afterwards and the Result; len as InternedId
\* keeps the low bits of len.
Interned_new(table, value) ==
  IF str_to_id(table, value).some
  THEN [table |-> table, result |-> InternOk(str_to_id(table, value).value)]
  ELSE IF table_len(table) > InternedId_max_value
  THEN [table |-> table, result |-> InternErr]
  ELSE [table |-> Table(table.filled, Append(table.more, value)),
        result |-> InternOk(table_len(table) % (2 ^ InternedId_bits))]

\* The tables the calls start from: empty, or with nearly 2^16 strings.
InternerInit ==
  /\ i_table \in {Table(filled, <<>>) :
                    filled \in {0} \cup ((InternedId_max_value - MaxWords)..(InternedId_max_value + 1))}
  /\ i_before = i_table
  /\ i_value = Filled(0)
  /\ i_result = InternOk(0)
  /\ i_returned = {}
  /\ i_pc = "ready"

\* Interned::new(value) for a new word or for a string interned at the start.
Intern ==
  /\ i_pc = "ready"
  /\ \E value \in {Fresh(n) : n \in 1..MaxWords}
                    \cup {Filled(n) : n \in {0, i_table.filled - 1} \cap (0..(i_table.filled - 1))} :
       /\ i_value' = value
       /\ i_table' = Interned_new(i_table, value).table
       /\ i_result' = Interned_new(i_table, value).result
       /\ i_returned' = IF Interned_new(i_table, value).result.ok
                        THEN i_returned \cup {<<value, Interned_new(i_table, value).result.id>>}
                        ELSE i_returned
  /\ i_before' = i_table
  /\ UNCHANGED <<i_pc, not_interner>>

InternerNext == Intern

InternerIdle ==
  /\ i_table = Table(0, <<>>) /\ i_before = Table(0, <<>>) /\ i_value = Filled(0)
  /\ i_result = InternOk(0) /\ i_returned = {} /\ i_pc = "idle"

(***************************************************************************)
(* Parsing payloads (lib/combine.rs, payload/lambda.rs, payload/json.rs,   *)
(* payload/cached.rs).  A text is a sequence of characters.  A parser      *)
(* takes a text and fails or returns a value and the rest of the text; any *)
(* takes the first alternative that succeeds and a sequence never goes     *)
(* back into a part that succeeded.  Names and numerals are kept as        *)
(* strings, the texts of Json strings as sequences of characters.          *)
(***************************************************************************)
NoParse == [ok |-> FALSE, v |-> <<>>, rest |-> <<>>]
Parsed(v, rest) == [ok |-> TRUE, v |-> v, rest |-> rest]

Spaces == {" ", "\t", "\n"}
Digits == {"0", "1", "2", "3", "4", "5", "6", "7", "8", "9"}
Letters ==
  {"a", "b", "c", "d", "e", "f", "g", "h", "i", "j", "k", "l", "m", "n", "o", "p", "q", "r",
   "s", "t", "u", "v", "w", "x", "y", "z", "A", "B", "C", "D", "E", "F", "G", "H", "I", "J",
   "K", "L", "M", "N", "O", "P", "Q", "R", "S", "T", "U", "V", "W", "X", "Y", "Z", "_"}

\* The length of the longest prefix of characters of a class.
RECURSIVE span(_, _)
span(x, class) == IF x # <<>> /\ Head(x) \in class THEN 1 + span(Tail(x), class) ELSE 0

drop(x, n) == SubSeq(x, n + 1, Len(x))

\* The characters as one string.
RECURSIVE text_of(_)
text_of(chars) == IF chars = <<>> THEN "" ELSE Head(chars) \o text_of(Tail(chars))

\* ws: regexp(\s*).
skip_ws(x) == drop(x, span(x, Spaces))

\* st(lit): string(lit) and then ws.
st(lit, x) ==
  IF Len(x) >= Len(lit) /\ SubSeq(x, 1, Len(lit)) = lit
  THEN Parsed(lit, skip_ws(drop(x, Len(lit))))
  ELSE NoParse

\* id: regexp([class]+) and then ws.
id(class, x) ==
  IF span(x, class) = 0 THEN NoParse
  ELSE Parsed(text_of(SubSeq(x, 1, span(x, class))), skip_ws(drop(x, span(x, class))))

\* str::parse::<usize>.
RECURSIVE parse_usize(_, _)
parse_usize(chars, acc) ==
  IF chars = <<>> THEN acc
  ELSE parse_usize(Tail(chars),
                   10 * acc + (CHOOSE n \in 0..9 : ToString(n) = Head(chars)))

\* regexp((0|[1-9][0-9]*)) and then ws.
usize_index(x) ==
  IF x = <<>> \/ Head(x) \notin Digits THEN NoParse
  ELSE IF Head(x) = "0" THEN Parsed(0, skip_ws(Tail(x)))
  ELSE Parsed(parse_usize(SubSeq(x, 1, span(x, Digits)), 0), skip_ws(drop(x, span(x, Digits))))

\* The text of the f32 a numeral parses to (f32::to_string after
\* str::parse::<f32>), for numerals short enough to be exact: a fraction
\* loses its last zeros and a numeral without an integer part gets a zero.
RECURSIVE trim_zeros(_)
trim_zeros(chars) ==
  IF chars # <<>> /\ chars[Len(chars)] = "0" THEN trim_zeros(SubSeq(chars, 1, Len(chars) - 1))
  ELSE chars
f32_text(sign, whole, fraction) ==
  text_of(sign \o (IF whole = <<>> THEN <<"0">> ELSE whole)
            \o (IF trim_zeros(fraction) = <<>> THEN <<>> ELSE <<".">> \o trim_zeros(fraction)))

\* The two regexps of number, -?(?:[0-9]|[1-9][0-9]+)?(?:\.[0-9]+)\b first
\* and -?(?:[0-9]|[1-9][0-9]+)\b second, and then ws.
json_number(x) ==
  LET sign == IF x # <<>> /\ Head(x) = "-" THEN <<"-">> ELSE <<>>
      y == drop(x, Len(sign))
      n == span(y, Digits)
      whole == SubSeq(y, 1, n)
      z == drop(y, n)
      m == IF z # <<>> /\ Head(z) = "." THEN span(Tail(z), Digits) ELSE 0
      boundary(after) == after = <<>> \/ Head(after) \notin (Letters \cup Digits)
  IN IF n > 1 /\ Head(y) = "0" THEN NoParse
     ELSE IF m > 0 /\ boundary(drop(z, m + 1))
     THEN Parsed(f32_text(sign, whole, SubSeq(z, 2, m + 1)), skip_ws(drop(z, m + 1)))
     ELSE IF n > 0 /\ boundary(z) THEN Parsed(f32_text(sign, whole, <<>>), skip_ws(z))
     ELSE NoParse

\* The two regexps of string, "[^"]*" and '[^']*', and then ws: the text
\* between the quotes as it stands.
json_string(x) ==
  IF x = <<>> \/ Head(x) \notin {"\"", "'"} THEN NoParse
  ELSE LET n == span(Tail(x), {ch \in {x[i] : i \in 2..Len(x)} : ch # Head(x)})
       IN IF n + 2 > Len(x) THEN NoParse
          ELSE Parsed(SubSeq(x, 2, n + 1), skip_ws(drop(x, n + 2)))

\* dict(items) of json.rs; an item is Literals (a list of (key, template))
\* or Variable.
RECURSIVE pair_fold(_, _, _)
pair_fold(kind, acc, xs) ==
  IF xs = <<>> THEN acc
  ELSE pair_fold(kind,
                 IF kind = "dict" THEN DictPairTemplate(acc, Head(xs))
                 ELSE ListPairTemplate(acc, Head(xs)),
                 Tail(xs))
dict_template(items) ==
  LET one(item) == IF item.literals
                   THEN DictBaseTemplate([i \in 1..Len(item.v) |-> item.v[i][1]],
                                         [i \in 1..Len(item.v) |-> item.v[i][2]])
                   ELSE item.v
      xs == [i \in 1..Len(items) |-> one(items[i])]
  IN IF items = <<>> THEN BaseTemplate(Unknown)
     ELSE DictWrapTemplate(pair_fold("dict", Head(xs), Tail(xs)))

\* list(items) of json.rs; an item is (template, whether it is a spread).
list_template(items) ==
  LET one(item) == IF item[2] THEN item[1] ELSE ListBaseTemplate(item[1])
      xs == [i \in 1..Len(items) |-> one(items[i])]
  IN IF items = <<>> THEN BaseTemplate(Unknown)
     ELSE ListWrapTemplate(pair_fold("list", Head(xs), Tail(xs)))

\* xs.drain(..).fold(x.0, |acc, x| wrap(BinaryTemplate(op, acc, x))).
RECURSIVE binary_fold(_, _, _)
binary_fold(op, acc, xs) ==
  IF xs = <<>> THEN acc ELSE binary_fold(op, BinaryTemplate(op, acc, Head(xs)), Tail(xs))

RECURSIVE parser(_, _)
RECURSIVE repeat_after(_, _, _, _)

\* repeat(seq2((separator, item), |x| x.1), 0) after the items of acc: a
\* separator that no item follows is not taken.
repeat_after(kind, separator, x, acc) ==
  LET s == st(separator, x)
      item == parser(kind, s.rest)
  IN IF s.ok /\ item.ok THEN repeat_after(kind, separator, item.rest, Append(acc, item.v))
     ELSE Parsed(acc, x)

\* separate(item, separator, min) for min 0 or 1.
separate(kind, separator, min, x) ==
  LET first == parser(kind, x)
  IN IF first.ok THEN repeat_after(kind, separator, first.rest, <<first.v>>)
     ELSE IF min = 0 THEN Parsed(<<>>, x) ELSE NoParse

\* seq3((st(open), separate(item, st(","), 0), st(close)), |x| x.1).
enclosed(open, kind, close, x) ==
  LET a == st(open, x)
      items == separate(kind, <<",">>, 0, a.rest)
      b == st(close, items.rest)
  IN IF a.ok /\ b.ok THEN Parsed(items.v, b.rest) ELSE NoParse

\* seq3((st(open), item, st(close)), |x| x.1).
bracketed(open, kind, close, x) ==
  LET a == st(open, x)
      item == parser(kind, a.rest)
      b == st(close, item.rest)
  IN IF a.ok /\ item.ok /\ b.ok THEN Parsed(item.v, b.rest) ELSE NoParse

\* seq2((st(mark), index), |x| wrap(VariableTemplate(x.1))).
variable(mark, x) ==
  LET a == st(mark, x)
      n == usize_index(a.rest)
  IN IF a.ok /\ n.ok THEN Parsed(VariableTemplate(n.v), n.rest) ELSE NoParse

\* binaries(ops) applied to the parser of a kind: an item, then for the
\* first operator that one item follows, every item that follows it.
binaries(ops, kind, x) ==
  LET first == parser(kind, x)
      one == repeat_after(kind, ops[1][1], first.rest, <<>>)
      two == repeat_after(kind, ops[2][1], first.rest, <<>>)
  IN IF ~first.ok THEN NoParse
     ELSE IF one.v # <<>> THEN Parsed(binary_fold(ops[1][2], first.v, one.v), one.rest)
     ELSE IF Len(ops) > 1 /\ two.v # <<>>
     THEN Parsed(binary_fold(ops[2][2], first.v, two.v), two.rest)
     ELSE first

\* map(parser, callback).
mapped(r, v) == IF r.ok THEN Parsed(v, r.rest) ELSE NoParse

\* any(&[a, b]): b is tried when a fails.
either(a, b) == IF a.ok THEN a ELSE b

\* The parsers of json.rs (root, the entries and items of a dict, the items
\* of a list) and of lambda.rs (base and the three levels of precedence
\* folded over it; the last is root).
parser(kind, x) ==
  CASE kind = "json" ->
         LET dict == enclosed(<<"{">>, "dict_item", <<"}">>, x)
             list == enclosed(<<"[">>, "list_item", <<"]">>, x)
             number == json_number(x)
             string == json_string(x)
         IN IF dict.ok THEN Parsed(dict_template(dict.v), dict.rest)
            ELSE IF list.ok THEN Parsed(list_template(list.v), list.rest)
            ELSE IF st(<<"n", "u", "l", "l">>, x).ok
            THEN mapped(st(<<"n", "u", "l", "l">>, x), BaseTemplate(Unknown))
            ELSE IF st(<<"t", "r", "u", "e">>, x).ok
            THEN mapped(st(<<"t", "r", "u", "e">>, x), BaseTemplate(JBoolean("true")))
            ELSE IF st(<<"f", "a", "l", "s", "e">>, x).ok
            THEN mapped(st(<<"f", "a", "l", "s", "e">>, x), BaseTemplate(JBoolean("false")))
            ELSE IF number.ok THEN Parsed(BaseTemplate(JNumber(number.v)), number.rest)
            ELSE IF string.ok THEN Parsed(BaseTemplate(JText(string.v)), string.rest)
            ELSE variable(<<"$">>, x)
    [] kind = "entry" ->
         LET name == id(Letters, x)
             quoted == json_string(x)
             key == IF name.ok THEN name ELSE mapped(quoted, text_of(quoted.v))
             colon == st(<<":">>, key.rest)
             value == parser("json", colon.rest)
         IN IF key.ok /\ colon.ok /\ value.ok THEN Parsed(<<key.v, value.v>>, value.rest)
            ELSE NoParse
    [] kind = "dict_item" ->
         LET pairs == separate("entry", <<",">>, 1, x)
             spread == variable(<<".", ".", ".", "$">>, x)
         IN IF pairs.ok THEN Parsed([literals |-> TRUE, v |-> pairs.v], pairs.rest)
            ELSE mapped(spread, [literals |-> FALSE, v |-> spread.v])
    [] kind = "list_item" ->
         LET spread == variable(<<".", ".", ".", "$">>, x)
             value == parser("json", x)
         IN IF spread.ok THEN Parsed(<<spread.v, TRUE>>, spread.rest)
            ELSE mapped(value, <<value.v, FALSE>>)
    [] kind = "base" ->
         LET r == st(<<"R">>, x)
             inner == bracketed(<<"[">>, "lambda", <<"]">>, r.rest)
             name == id(Letters \cup Digits, x)
             args == enclosed(<<"(">>, "lambda", <<")">>, name.rest)
             group == bracketed(<<"(">>, "lambda", <<")">>, x)
         IN IF r.ok /\ inner.ok THEN Parsed(UnaryTemplate("Reverse", inner.v), inner.rest)
            ELSE IF name.ok
            THEN IF args.ok THEN Parsed(CustomTemplate(name.v, args.v), args.rest)
                 ELSE Parsed(TerminalTemplate(name.v), name.rest)
            ELSE IF group.ok THEN group
            ELSE variable(<<"$">>, x)
    [] kind = "join" -> binaries(<< <<<<".">>, "Join">> >>, "base", x)
    [] kind = "not" ->
         LET plain == parser("join", x)
             tilde == st(<<"~">>, x)
             negated == parser("join", tilde.rest)
         IN IF plain.ok THEN plain
            ELSE IF tilde.ok /\ negated.ok
            THEN Parsed(UnaryTemplate("Not", negated.v), negated.rest)
            ELSE NoParse
    [] kind = "lambda" ->
         binaries(<< <<<<"&">>, "Conjunction">>, <<<<"|">>, "Disjunction">> >>, "not", x)

\* Parser::parse of seq2((&ws, &root)): the whole input must be read.
template_of(P, input) ==
  LET r == parser(P, skip_ws(input))
  IN IF r.ok /\ r.rest = <<>> THEN Parsed(r.v, <<>>) ELSE NoParse

\* Lambda::parse and Cached::parse: Ok(value) or Err.
ParseOk(value) == [ok |-> TRUE, value |-> value]
ParseErr == [ok |-> FALSE, value |-> Unknown]
merged_or_err(y) == IF empty(y) THEN ParseErr ELSE ParseOk(y)
parse(P, input) ==
  IF input = repr(P, Unknown) THEN ParseOk(Unknown)
  ELSE IF ~template_of(P, input).ok THEN ParseErr
  ELSE merged_or_err(merge(template_of(P, input).v, <<>>))

(***************************************************************************)
(* A payload written and read back: x.repr() is computed, for x and for a  *)
(* second payload y, and the text of x is given to parse.                  *)
(***************************************************************************)
\* Strings as base_lex makes them from the text of a token.
LexedTexts == {<<"x", "y">>, <<"'">>, <<"\"">>, <<"\\">>}
\* Values with a commutative operator or a dict below the root.
NestedLambda ==
  {LUnary("Not", LBinary(op, <<u, v>>)) :
     op \in {"Conjunction", "Disjunction"}, u \in LambdaAtoms, v \in LambdaAtoms}
    \cup {LBinary("Conjunction", <<LBinary("Disjunction", <<u, v>>), w>>) :
            u \in LambdaAtoms, v \in LambdaAtoms, w \in LambdaAtoms}
    \cup {LBinary("Join", <<LBinary("Conjunction", <<u, v>>), w>>) :
            u \in LambdaAtoms, v \in LambdaAtoms, w \in LambdaAtoms}
    \cup {LCustom("f", <<LBinary("Disjunction", <<u, v>>)>>) : u \in LambdaAtoms, v \in LambdaAtoms}
NestedJson ==
  {JList(<<JDict(<<JPair("m", u), JPair("k", v)>>)>>) :
     u \in {JNumber("1"), JString("x")}, v \in {JNumber("1"), JNumber("2")}}
    \cup {JDict(<<JPair("m", JDict(<<JPair("m", u), JPair("k", JNumber("2"))>>)), JPair("k", v)>>) :
            u \in {JNumber("1"), JBoolean("true")}, v \in {JNumber("1"), JList(<<JNumber("2"), JNumber("1")>>)}}
PayloadValues(P) ==
  IF P = "lambda" THEN LambdaValues \cup NestedLambda
  ELSE JsonValues \cup NestedJson \cup {JText(text) : text \in LexedTexts}

\* The orders of the items of a sequence.
Perms(s) ==
  {[i \in 1..Len(s) |-> s[f[i]]] :
     f \in {g \in [1..Len(s) -> 1..Len(s)] : \A i, j \in 1..Len(s) : g[i] = g[j] => i = j}}

\* The payloads that differ from x only in the order of the operands of a
\* commutative operator or of the pairs of a dict, at any depth.
RECURSIVE Shuffles(_)
Shuffles(x) ==
  LET kids == {k \in [1..Len(x.c) -> UNION {Shuffles(x.c[i]) : i \in 1..Len(x.c)}] :
                 \A i \in 1..Len(x.c) : k[i] \in Shuffles(x.c[i])}
  IN IF x.t = "Dict" \/ (x.t = "Binary" /\ x.a \in {"Conjunction", "Disjunction"})
     THEN UNION {{[x EXCEPT !.c = q] : q \in Perms(k)} : k \in kids}
     ELSE {[x EXCEPT !.c = k] : k \in kids}

\* The payloads that differ from x in the order of the operands of a join
\* or of the elements of a list, at the root.
Rearranged(x) ==
  IF x.t = "List" \/ (x.t = "Binary" /\ x.a = "Join")
  THEN {[x EXCEPT !.c = q] : q \in Perms(x.c)}
  ELSE {}

PayloadInit ==
  /\ p_kind \in {"lambda", "json"}
  /\ p_x \in PayloadValues(p_kind)
  /\ p_y \in Shuffles(p_x) \cup Rearranged(p_x)
  /\ p_text = <<>>
  /\ p_other = <<>>
  /\ p_parsed = ParseErr
  /\ p_pc = "stringify"

\* x.repr() and y.repr().
Stringify ==
  /\ p_pc = "stringify"
  /\ p_text' = repr(p_kind, p_x)
  /\ p_other' = repr(p_kind, p_y)
  /\ p_pc' = "parse"
  /\ UNCHANGED <<p_kind, p_x, p_y, p_parsed, not_payload>>

\* Payload::parse(x.repr()).
ParseBack ==
  /\ p_pc = "parse"
  /\ p_parsed' = parse(p_kind, p_text)
  /\ p_pc' = "done"
  /\ UNCHANGED <<p_kind, p_x, p_y, p_text, p_other, not_payload>>

PayloadNext == Stringify \/ ParseBack

PayloadIdle ==
  /\ p_kind = "json" /\ p_x = Unknown /\ p_y = Unknown /\ p_text = <<>> /\ p_other = <<>>
  /\ p_parsed = ParseErr /\ p_pc = "idle"

(***************************************************************************)
(* The specifications: one per component, the others idle.                 *)
(***************************************************************************)
CoreIdle == ParserIdle /\ TemplateIdle /\ GenIdle /\ CorrectorIdle
LibraryIdle == RuleIdle /\ TenseIdle /\ ValidateIdle /\ InternerIdle
ParserOnly == ParserInit /\ TemplateIdle /\ GenIdle /\ CorrectorIdle /\ LibraryIdle /\ PayloadIdle
TemplateOnly == TemplateInit /\ ParserIdle /\ GenIdle /\ CorrectorIdle /\ LibraryIdle /\ PayloadIdle
GenOnly == GenInit /\ ParserIdle /\ TemplateIdle /\ CorrectorIdle /\ LibraryIdle /\ PayloadIdle
CorrectorOnly == CorrectorInit /\ ParserIdle /\ TemplateIdle /\ GenIdle /\ LibraryIdle /\ PayloadIdle
RuleOnly == RuleInit /\ CoreIdle /\ TenseIdle /\ ValidateIdle /\ InternerIdle /\ PayloadIdle
TenseOnly == TenseInit /\ CoreIdle /\ RuleIdle /\ ValidateIdle /\ InternerIdle /\ PayloadIdle
ValidateOnly == ValidateInit /\ CoreIdle /\ RuleIdle /\ TenseIdle /\ InternerIdle /\ PayloadIdle
InternerOnly == InternerInit /\ CoreIdle /\ RuleIdle /\ TenseIdle /\ ValidateIdle /\ PayloadIdle
PayloadOnly == PayloadInit /\ CoreIdle /\ LibraryIdle

Spec == ParserOnly /\ [][ParserNext]_vars
TemplateSpec == TemplateOnly /\ [][TemplateNext]_vars
GenSpec == GenOnly /\ [][GenNext]_vars
\* generate runs on its own thread with nothing to wait for: each step is taken.
GenFairSpec == GenSpec /\ WF_vars(GenNext)
CorrectorSpec == CorrectorOnly /\ [][CorrectorNext]_vars
RuleSpec == RuleOnly /\ [][RuleNext]_vars
TenseSpec == TenseOnly /\ [][TenseNext]_vars
ValidateSpec == ValidateOnly /\ [][ValidateNext]_vars
InternerSpec == InternerOnly /\ [][InternerNext]_vars
PayloadSpec == PayloadOnly /\ [][PayloadNext]_vars
RecursiveOnly == RecursiveInit /\ TemplateIdle /\ GenIdle /\ CorrectorIdle /\ LibraryIdle /\ PayloadIdle
RecursiveSpec == RecursiveOnly /\ [][ParserNext]_vars
SeededOnly == SeededInit /\ ParserIdle /\ TemplateIdle /\ CorrectorIdle /\ LibraryIdle /\ PayloadIdle
SeededSpec == SeededOnly /\ [][GenNext]_vars

(***************************************************************************)
(* What the grammar derives, stated without the chart: Derives[s, i, j]    *)
(* is the best score of a derivation of symbol s that starts after token i *)
(* and ends with token j, where a terminal may be matched after dropping   *)
(* at most skip_count tokens, each dropped token costing skip_penalty.     *)
(***************************************************************************)
Finite(x) == x > NEG_INFINITY
Plus(a, b) == IF Finite(a) /\ Finite(b) THEN a + b ELSE NEG_INFINITY
MaxSet(S) == IF S = {} THEN NEG_INFINITY ELSE CHOOSE x \in S : \A y \in S : y <= x

RECURSIVE SeqBest(_, _, _, _, _, _, _)
SeqBest(D, toks, o, rhs, t, i, j) ==
  IF t > Len(rhs) THEN (IF i = j THEN 0 ELSE NEG_INFINITY)
  ELSE IF rhs[t].kind = "Terminal"
  THEN MaxSet({Plus(toks[q].matches[rhs[t].name].score + (q - i - 1) * o.skip_penalty,
                    SeqBest(D, toks, o, rhs, t + 1, q, j)) :
               q \in {q \in (i + 1)..Min2(i + 1 + o.skip_count, j) :
                        rhs[t].name \in DOMAIN toks[q].matches}})
  ELSE MaxSet({Plus(D[<<rhs[t].id, i, m>>], SeqBest(D, toks, o, rhs, t + 1, m, j)) :
               m \in i..j})

DerivesStep(g, D, toks, o) ==
  [key \in DOMAIN D |->
     MaxSet({Plus(g.rules[r].score, SeqBest(D, toks, o, g.rules[r].rhs, 1, key[2], key[3])) :
             r \in {r \in 1..Len(g.rules) : g.rules[r].lhs = key[1]}})]

RECURSIVE DerivesFix(_, _, _, _)
DerivesFix(g, D, toks, o) ==
  LET D1 == DerivesStep(g, D, toks, o)
  IN IF D1 = D THEN D ELSE DerivesFix(g, D1, toks, o)

Derives(g, toks, o) ==
  LET n == Len(toks)
      keys == {<<s, i, j>> : s \in 0..(g.names - 1), i \in 0..n, j \in 0..n}
  IN DerivesFix(g, [key \in {k \in keys : k[2] <= k[3]} |-> NEG_INFINITY], toks, o)

\* The best total score of a parse of the whole input: a derivation of the
\* start symbol, then at most skip_count dropped trailing tokens.
BestParse(g, toks, o) ==
  LET n == Len(toks)
      D == Derives(g, toks, o)
  IN MaxSet({Plus(D[<<g.start, 0, j>>], (n - j) * o.skip_penalty) :
             j \in {j \in 0..n : n - j <= o.skip_count}})

\* The score of a derivation: its rules' merge scores plus its leaves' scores.
RECURSIVE DerivationScore(_, _)
RECURSIVE ChildrenScore(_, _, _)
ChildrenScore(g, children, i) ==
  IF i > Len(children) THEN 0
  ELSE (IF children[i].leaf THEN children[i].match.score
        ELSE DerivationScore(g, children[i].node))
       + ChildrenScore(g, children, i + 1)
DerivationScore(g, tree) == g.rules[tree.rule].score + ChildrenScore(g, tree.children, 1)

\* The score of a parse: the derivation's score and the dropped tokens' penalty.
ParseScore(g, tree, toks, o) ==
  DerivationScore(g, tree) + (Len(toks) - Len(matches(tree))) * o.skip_penalty

\* A tree is a derivation of symbol s over the tokens: every node has one
\* child per rhs term, a Node of the term's symbol or the Leaf stored in
\* its token's match table under the terminal's name, and the node's value
\* is the rule's merge of its children's values.
RECURSIVE IsDerivation(_, _, _, _)
IsDerivation(g, tree, s, toks) ==
  LET rule == g.rules[tree.rule] IN
  /\ rule.lhs = s
  /\ Finite(rule.score)
  /\ Len(tree.children) = Len(rule.rhs)
  /\ \A i \in 1..Len(rule.rhs) :
       IF rule.rhs[i].kind = "Symbol"
       THEN /\ ~tree.children[i].leaf
            /\ IsDerivation(g, tree.children[i].node, rule.rhs[i].id, toks)
       ELSE /\ tree.children[i].leaf
            /\ LET m == tree.children[i].match IN
               /\ m.token \in 1..Len(toks)
               /\ rule.rhs[i].name \in DOMAIN toks[m.token].matches
               /\ m = toks[m.token].matches[rule.rhs[i].name]
  /\ tree.value = merge_callback(rule.callback,
                    [i \in 1..Len(tree.children) |-> ChildValue(tree.children[i])])

\* The token positions of the leaves, left to right.
LeafTokens(tree) == [i \in 1..Len(matches(tree)) |-> matches(tree)[i].token]

\* The runs of dropped tokens between the leaves are at most k long.
WithinSkipBound(positions, n, k) ==
  LET len == Len(positions) IN
  /\ \A i \in 1..len : positions[i] \in 1..n
  /\ \A i \in 1..(len - 1) : positions[i] < positions[i + 1]
                            /\ positions[i + 1] - positions[i] - 1 <= k
  /\ IF len = 0 THEN n <= k
     ELSE positions[1] - 1 <= k /\ n - positions[len] <= k

\* C1: parser optimality with skipping disabled: when some derivation of the
\* start symbol covers the input, parse returns a derivation whose score is
\* the maximum over all such derivations.
C1_ParserOptimality ==
  (pc = "done" /\ options.skip_count = 0) =>
    LET best == BestParse(Grammar(grammar), tokens, options)
    IN Finite(best) =>
         /\ result.some
         /\ DerivationScore(Grammar(grammar), result.value) = best

\* C2: parser soundness with skipping disabled: a returned derivation is
\* rooted at the start symbol, is well formed, and its leaves are the
\* tokens' matches in order; an underivable input yields None.
C2_ParserSoundness ==
  (pc = "done" /\ options.skip_count = 0) =>
    /\ result.some =>
         /\ IsDerivation(Grammar(grammar), result.value, Grammar(grammar).start, tokens)
         /\ LeafTokens(result.value) = [i \in 1..Len(tokens) |-> i]
    /\ ~Finite(BestParse(Grammar(grammar), tokens, options)) => ~result.some

C2_Witness ==
  /\ pc = "done" /\ options.skip_count = 0 /\ grammar = "skipping"
  /\ result.some /\ Len(tokens) = 3 /\ result.value.value = 2

\* C8: token-skipping bound: with skip_count = k, parse returns a derivation
\* exactly when the input is derivable after dropping runs of at most k
\* consecutive tokens, and the returned derivation's leaves leave out only
\* such runs; with k = 0 nothing may be dropped.
C8_SkippingBound ==
  pc = "done" =>
    /\ result.some <=> Finite(BestParse(Grammar(grammar), tokens, options))
    /\ result.some =>
         /\ IsDerivation(Grammar(grammar), result.value, Grammar(grammar).start, tokens)
         /\ WithinSkipBound(LeafTokens(result.value), Len(tokens), options.skip_count)

\* A parse that dropped an interior run of exactly skip_count tokens.
C8_Witness ==
  /\ pc = "done" /\ options.skip_count = MaxSkip /\ result.some
  /\ \E i \in 1..(Len(LeafTokens(result.value)) - 1) :
       LeafTokens(result.value)[i + 1] - LeafTokens(result.value)[i] - 1 = options.skip_count

\* C9: skip penalty accounting: with skipping enabled the returned
\* derivation maximises rule scores + leaf scores + skip_penalty times
\* the number of dropped tokens over the derivations the bound allows.
C9_SkipPenalty ==
  (pc = "done" /\ options.skip_count > 0 /\ result.some) =>
    ParseScore(Grammar(grammar), result.value, tokens, options)
      = BestParse(Grammar(grammar), tokens, options)

\* C4: template round-trip law: for every template, every value x and every
\* args returned by split(x), merge(args) equals x under payload equality.
C4_RoundTrip ==
  (t_pc = "merge" /\ t_at > 0) => eq(PayloadOf(t_template), t_merged, t_x)

(***************************************************************************)
(* What an arithmetic text evaluates to: expr := term (("+" | "-") term)*, *)
(* term := factor (("*" | "/") factor)*, factor := digit | "(" expr ")".   *)
(* Each operator returns {ok, value, rest}.                                *)
(***************************************************************************)
Bad == [ok |-> FALSE, value |-> 0, rest |-> <<>>]
Good(value, rest) == [ok |-> TRUE, value |-> value, rest |-> rest]
DigitChars == {ToString(n) : n \in 0..MaxDigit}
digit(ch) == CHOOSE n \in 0..MaxDigit : ToString(n) = ch

RECURSIVE eval_expr(_)
RECURSIVE eval_term(_)
RECURSIVE eval_factor(_)
RECURSIVE eval_rest(_, _, _)
\* The operators of one level applied left to right, starting from acc.
eval_rest(level, acc, text) ==
  LET ops == IF level = "expr" THEN {"+", "-"} ELSE {"*", "/"} IN
  IF text = <<>> \/ Head(text) \notin ops THEN Good(acc, text)
  ELSE LET right == IF level = "expr" THEN eval_term(Tail(text)) ELSE eval_factor(Tail(text))
           f == CASE Head(text) = "+" -> "add" [] Head(text) = "-" -> "sub"
                  [] Head(text) = "*" -> "mul" [] Head(text) = "/" -> "div"
       IN IF ~right.ok THEN Bad
          ELSE IF ~operate(f, acc, right.value).some THEN Bad
          ELSE eval_rest(level, operate(f, acc, right.value).value, right.rest)
eval_factor(text) ==
  IF text = <<>> THEN Bad
  ELSE IF Head(text) = "("
  THEN LET inner == eval_expr(Tail(text))
       IN IF inner.ok /\ inner.rest # <<>> /\ Head(inner.rest) = ")"
          THEN Good(inner.value, Tail(inner.rest)) ELSE Bad
  ELSE IF Head(text) \in DigitChars THEN Good(digit(Head(text)), Tail(text))
  ELSE Bad
eval_term(text) ==
  LET left == eval_factor(text) IN IF left.ok THEN eval_rest("term", left.value, left.rest) ELSE Bad
eval_expr(text) ==
  LET left == eval_term(text) IN IF left.ok THEN eval_rest("expr", left.value, left.rest) ELSE Bad

\* The value of a whole text, None if it is not an expression.
calculate(text) ==
  LET got == eval_expr(text) IN IF got.ok /\ got.rest = <<>> THEN Some(got.value) ELSE None

\* The (term, value) pairs whose generate_from_memo call is on the stack, and
\* the pair the rule on top has just asked for.
MemoFrames == {i \in 1..Len(g_stack) : g_stack[i].f = "memo"}
InProgress == {<<g_stack[i].term, g_stack[i].value>> : i \in MemoFrames}
Requested ==
  LET top == Top(GenState)
      at == Len(top.children) + 1
  IN <<GenGrammar.rules[top.rule].rhs[at], top.candidates[top.at][at]>>
SentinelHit ==
  /\ g_pc = "run" /\ g_stack # <<>> /\ g_ret.pending
  /\ Top(GenState).f = "rule"
  /\ Requested \in InProgress
NoReentry ==
  /\ \A i \in MemoFrames : \A j \in MemoFrames :
       (g_stack[i].term = g_stack[j].term /\ g_stack[i].value = g_stack[j].value) => i = j
  /\ SentinelHit => g_ret.tree = None

\* C3: generator soundness: a derivation returned by generate has a rule of
\* the start symbol at its root and its merged value is the value asked for:
\* the text evaluates to the target in the arithmetic grammar, and the value
\* equals the requested payload (unless none or the default was requested).
C3_GeneratorSoundness ==
  (g_pc = "done" /\ g_result.some) =>
    /\ GenGrammar.rules[g_result.value.rule].lhs = GenGrammar.start
    /\ IF g_grammar.name = "arithmetic"
       THEN calculate(g_result.value.value) = Some(g_value)
       ELSE (g_value.some /\ ~empty(g_value.value))
              => eq("json", g_result.value.value, g_value.value)

RECURSIVE audit(_, _, _)
RECURSIVE audit_children(_, _, _, _, _, _)

\* The mismatches of one child under the context: of a leaf, those of
\* union_checked with its tense list.
audit_child(g, context, x) ==
  IF x.leaf THEN union_checked(context, x.match.tenses) ELSE audit(g, context, x.node)

audit_rest(g, children, order, fresh, errors, seen) ==
  audit_children(g, IF fresh THEN Tense_default ELSE seen.tense, children, order, fresh,
                 errors \o seen.errors)

\* The children listed in order, each under the context left by the one
\* before it, or each under a fresh context.
audit_children(g, context, children, order, fresh, errors) ==
  IF order = <<>> THEN [tense |-> context, errors |-> errors]
  ELSE audit_rest(g, children, Tail(order), fresh, errors,
                  audit_child(g, context, children[Head(order) + 1]))

audit_node(listed, unlisted) ==
  [tense |-> listed.tense, errors |-> listed.errors \o unlisted.errors]

\* The mismatches of a node: of its rule's base tense against the context,
\* then of its children.
audit(g, context, tree) ==
  LET rule == g.rules[tree.rule]
      is_unlisted(i) == \A j \in 1..Len(rule.precedence) : rule.precedence[j] # i
  IN audit_node(audit_children(g, union(context, rule.tense), tree.children, rule.precedence,
                               FALSE, check(context, rule.tense)),
                audit_children(g, Tense_default, tree.children,
                               SelectSeq([i \in 1..Len(rule.rhs) |-> i - 1], is_unlisted),
                               TRUE, <<>>))

\* The child of a tree at a path of child indices.
RECURSIVE child_at(_, _)
child_at(x, path) ==
  IF path = <<>> THEN x ELSE child_at(x.node.children[Head(path)], Tail(path))

IsPrefix(p, q) == Len(p) <= Len(q) /\ SubSeq(q, 1, Len(p)) = p

\* What a Wrong entry lists as old_matches for a check that found errors.
OldMatches(e) == IF e.old.leaf THEN <<e.old.match>> ELSE matches(e.old.node)

Corrected == c_pc \in {"second", "done"}

\* The checks of the first call that found errors and got no replacement.
Failed == {i \in 1..Len(c_first.events) : ~c_first.events[i].replaced}

HasWrong(diff, errors) == \E i \in 1..Len(diff) : ~diff[i].right /\ diff[i].errors = errors

\* The leaf is kept; the node keeps its rule and its value.
Kept(e) ==
  LET x == child_at(ChildNode(c_first.tree), e.path) IN
  IF e.kind = "leaf" THEN x = e.old
  ELSE ~x.leaf /\ x.node.rule = e.old.node.rule /\ x.node.value = e.old.node.value

\* The diff holds the Wrong entry of the failed check, or that of a node
\* around it which failed its own check.
Recorded(e) ==
  \E j \in 1..Len(c_first.events) :
    LET t == c_first.events[j] IN
      /\ IsPrefix(t.path, e.path)
      /\ (t = e \/ t.kind = "node")
      /\ \E i \in 1..Len(c_first.diff) :
           /\ ~c_first.diff[i].right
           /\ c_first.diff[i].errors = t.errors
           /\ c_first.diff[i].old_matches = OldMatches(t)

\* C5: corrector preservation: in the tree returned by correct, no leaf
\* mismatches the tense context accumulated at it, and no node's base tense
\* conflicts with the context accumulated at the node.
C5_CorrectorPreservation ==
  Corrected => audit(AgreementGrammar, Tense_default, c_first.tree).errors = <<>>

\* C6: corrector idempotence: correct applied to the tree a previous call
\* returned, with the same seed, returns a tree with the same leaves, and its
\* diff has no Wrong entry.
C6_CorrectorIdempotence ==
  c_pc = "done" =>
    /\ matches(c_second.tree) = matches(c_first.tree)
    /\ \A i \in 1..Len(c_second.diff) : c_second.diff[i].right

C11_EmptyInput ==
  (pc = "done" /\ tokens = <<>>) =>
    LET best == BestParse(Grammar(grammar), <<>>, options)
    IN IF Finite(best)
       THEN /\ result.some
            /\ matches(result.value) = <<>>
            /\ DerivationScore(Grammar(grammar), result.value) = best
       ELSE ~result.some

\* The part of C11 that does not depend on the score: a leafless derivation
\* is returned exactly when the start symbol derives the empty string.
EmptyInputReturns ==
  (pc = "done" /\ tokens = <<>>) =>
    /\ result.some <=> Finite(BestParse(Grammar(grammar), <<>>, options))
    /\ result.some => matches(result.value) = <<>>


(***************************************************************************)
(* Claims about the semantics of compiled rules.                           *)
(***************************************************************************)
\* C12: the merge and split callbacks of a rule of a compiled grammar never
\* fail at run time: on any child values and on any payload they return
\* normally and do not panic, also when the rule's template mentions a
\* variable index that has no entry in the slot table of its SlotTemplate.
C12_SemanticsNeverPanic == ~r_split.panicked /\ ~r_merged.panicked

\* The merge callback alone returns for every rule and all child values.
MergeReturns == ~r_merged.panicked


\* What the sentence on SlotTemplate's split asks of the result: the inner
\* splits in which every variable mapped to a required slot has a value and
\* every unmapped variable has none, in their order, each with its mapped
\* variables renamed to their rhs term and its unmapped variables dropped.
Mapped(slots, k) == k < Len(slots) /\ slots[k + 1].some
Passes(slots, args) ==
  \A n \in 1..Len(args) :
    IF Mapped(slots, args[n].i)
    THEN slots[args[n].i + 1].optional \/ ~empty(args[n].x)
    ELSE empty(args[n].x)
RECURSIVE Renamed(_, _)
Renamed(slots, args) ==
  IF args = <<>> THEN <<>>
  ELSE (IF Mapped(slots, Head(args).i)
        THEN <<Pair(slots[Head(args).i + 1].index, Head(args).x)>>
        ELSE <<>>) \o Renamed(slots, Tail(args))
RECURSIVE Filtered(_, _)
Filtered(slots, inner) ==
  IF inner = <<>> THEN <<>>
  ELSE (IF Passes(slots, Head(inner)) THEN <<Renamed(slots, Head(inner))>> ELSE <<>>)
         \o Filtered(slots, Tail(inner))
SlotSplitCalled == r_pc \in {"merge", "done"} /\ r_x.some /\ r_rule.template.some
SlotSplitExpected(t, x) == Returned(Filtered(t.slots, split(t.c[1], x)))

\* C15: SlotTemplate's split of x returns exactly the splits of the inner
\* template in which every variable mapped to a required slot has a
\* non-default value and every unmapped variable has a default value, each
\* with its remaining variable indices replaced by their rhs term indices;
\* the other inner splits are dropped.
C15_SlotSplit ==
  SlotSplitCalled =>
    r_found = SlotSplitExpected(get_template(Len(r_rule.rhs), r_rule), r_x.value)

\* The same when the split returned: it panics only on a variable index that
\* is past the end of the slot table.
SlotSplitReturned ==
  SlotSplitCalled =>
    \/ r_found = SlotSplitExpected(get_template(Len(r_rule.rhs), r_rule), r_x.value)
    \/ /\ r_found = Panicked
       /\ LET inner == split(template(r_rule.template.value), r_x.value)
          IN \E n \in 1..Len(inner) : \E m \in 1..Len(inner[n]) :
               inner[n][m].i >= Len(get_template(Len(r_rule.rhs), r_rule).slots)


(***************************************************************************)
(* Claims about tenses.                                                    *)
(***************************************************************************)
\* The candidates that map no category of self to another value, in order.
Agreeing(self, others) ==
  SelectSeq(others, LAMBDA x : \A k \in (DOMAIN self) \cap (DOMAIN x) : x[k] = self[k])
\* The categories every one of the tenses maps to the same value.
Intersection(ts) ==
  [k \in {k \in DOMAIN ts[1] : \A i \in 1..Len(ts) : k \in DOMAIN ts[i] /\ ts[i][k] = ts[1][k]}
     |-> ts[1][k]]
Overwritten(self, t) == [k \in (DOMAIN self) \cup (DOMAIN t) |-> IF k \in DOMAIN t THEN t[k] ELSE self[k]]
\* The categories on which a candidate differs from self, with both values.
Mismatches(self, x) ==
  {[category |-> k, should |-> self[k], was |-> x[k]] :
     k \in {k \in (DOMAIN self) \cap (DOMAIN x) : x[k] # self[k]}}
Fewest(self, others) ==
  {i \in 1..Len(others) :
     \A j \in 1..Len(others) :
       Cardinality(Mismatches(self, others[i])) <= Cardinality(Mismatches(self, others[j]))}
Errors(errors) == {errors[i] : i \in 1..Len(errors)}

\* C13: union_checked(self, candidates): with A the candidates that share no
\* category with self under another value, if A is non-empty self becomes
\* self overwritten with the intersection of A and nothing is returned; if
\* there are candidates and A is empty self is unchanged and the mismatches
\* of a candidate with the fewest mismatches are returned; without
\* candidates self is unchanged and nothing is returned.
C13_UnionChecked ==
  u_pc = "done" =>
    IF Agreeing(u_given, u_others) # <<>>
    THEN /\ u_self = Overwritten(u_given, Intersection(Agreeing(u_given, u_others)))
         /\ u_errors = <<>>
    ELSE /\ u_self = u_given
         /\ IF u_others = <<>> THEN u_errors = <<>>
            ELSE \E i \in Fewest(u_given, u_others) :
                   /\ Errors(u_errors) = Mismatches(u_given, u_others[i])
                   /\ Len(u_errors) = Cardinality(Mismatches(u_given, u_others[i]))

\* Two agreeing candidates that differ: self takes what they have in common.
C13_Witness ==
  /\ u_pc = "done"
  /\ Len(Agreeing(u_given, u_others)) = 2
  /\ u_others[1] # u_others[2]
  /\ Intersection(u_others) # Tense_default
  /\ u_self # u_given
\* Candidates that all disagree: the fewest mismatches are returned.
C13_WitnessErrors ==
  /\ u_pc = "done" /\ Len(u_others) = 2 /\ Len(u_errors) = 1
  /\ Cardinality(Mismatches(u_given, u_others[1])) = 2


(***************************************************************************)
(* Claims about validate.  Reachable and Productive are the least sets     *)
(* closed under the rules, reached by iteration from the empty set.        *)
(***************************************************************************)
SymbolsOf(g) == 0..(Len(g.names) - 1)
RECURSIVE ReachableFrom(_, _)
ReachableFrom(g, seen) ==
  LET more == seen \cup UNION {rhs_symbols(g.rules[i]) :
                                 i \in {i \in 1..Len(g.rules) : g.rules[i].lhs \in seen}}
  IN IF more = seen THEN seen ELSE ReachableFrom(g, more)
Reachable(g) == ReachableFrom(g, {g.start})
RECURSIVE ProductiveFrom(_, _)
ProductiveFrom(g, seen) ==
  LET more == seen \cup {g.rules[i].lhs :
                           i \in {i \in 1..Len(g.rules) : rhs_symbols(g.rules[i]) \subseteq seen}}
  IN IF more = seen THEN seen ELSE ProductiveFrom(g, more)
Productive(g) == ProductiveFrom(g, {})
HasBarrenSymbol(g) == Reachable(g) \ Productive(g) # {}
HasUnreachableSymbol(g) == collect_lhs(g) \ Reachable(g) # {}
HasUnknownTerminal(g) == \E x \in collect_terminals(g) : unlex_is_empty(g, x)

\* C14: validate, and so compile, returns an error for every grammar in
\* which a symbol reachable from the start symbol derives no terminal
\* string, or a symbol with rules is not reachable from the start symbol,
\* or a terminal is unknown to the lexer: a grammar that passes has none of
\* these defects.
C14_ValidateDiagnoses ==
  (v_pc = "done" /\ v_result.ok) =>
    /\ ~HasBarrenSymbol(v_grammar)
    /\ ~HasUnreachableSymbol(v_grammar)
    /\ ~HasUnknownTerminal(v_grammar)

\* What validate does diagnose: a symbol that is on no left-hand side or on
\* no right-hand side, and an unknown terminal.
ValidateShallow ==
  v_pc = "done" =>
    (v_result.ok <=>
       /\ collect_rhs(v_grammar) = collect_lhs(v_grammar)
       /\ ~HasUnknownTerminal(v_grammar))


(***************************************************************************)
(* Claims about the splits of a binary template.                           *)
(***************************************************************************)
\* The top-level operands of x under an operator, and the term they make.
Operands(op, x) ==
  IF x.t = "Binary" /\ x.a = op THEN x.c ELSE IF x.t = "Unknown" THEN <<>> ELSE <<x>>
Operand(op, xs) ==
  IF xs = <<>> THEN Unknown ELSE IF Len(xs) = 1 THEN xs[1] ELSE LBinary(op, xs)
\* The operands at the positions of S to $0 and the others to $1, in order.
RECURSIVE Chosen(_, _, _, _)
Chosen(base, S, in, n) ==
  IF n > Len(base) THEN <<>>
  ELSE (IF (n \in S) = in THEN <<base[n]>> ELSE <<>>) \o Chosen(base, S, in, n + 1)
Assignment(op, base, S) ==
  <<Pair(0, Operand(op, Chosen(base, S, TRUE, 1))),
    Pair(1, Operand(op, Chosen(base, S, FALSE, 1)))>>
Division(base, n) ==
  <<Pair(0, Operand("Join", SubSeq(base, 1, n))),
    Pair(1, Operand("Join", SubSeq(base, n + 1, Len(base))))>>
OperatorOf(input) == IF input = "$0 & $1" THEN "Conjunction" ELSE "Disjunction"

\* C16: the split of a binary template enumerates, for a commutative
\* operator (& or |) and a value with k top-level operands, all 2^k
\* assignments of the operands to the two sides; for a join with k >= 2
\* operands exactly the k - 1 divisions into a prefix and a suffix (a.b.c
\* against $0.$1 gives (a, b.c) and (a.b, c)); and for a join of a single
\* operand no split.
C16_BinarySplits ==
  t_pc = "merge" =>
    /\ t_template \in {"$0 & $1", "$0 | $1"} =>
         LET base == Operands(OperatorOf(t_template), t_x)
         IN /\ Len(t_args) = 2 ^ Len(base)
            /\ {t_args[n] : n \in 1..Len(t_args)}
                 = {Assignment(OperatorOf(t_template), base, S) : S \in SUBSET (1..Len(base))}
    /\ (t_template = "$0.$1" /\ Len(Operands("Join", t_x)) >= 1) =>
         LET base == Operands("Join", t_x)
         IN t_args = [n \in 1..(Len(base) - 1) |-> Division(base, n)]

\* a.b.c against $0.$1: two divisions.
C16_Witness ==
  /\ t_pc = "merge" /\ t_template = "$0.$1" /\ t_at = 0
  /\ t_x = LBinary("Join", <<LTerminal("a"), LTerminal("b"), LTerminal("a")>>)
  /\ Len(t_args) = 2
\* Three operands under &: eight assignments.
C16_WitnessCommutes ==
  /\ t_pc = "merge" /\ t_template = "$0 & $1" /\ Len(Operands("Conjunction", t_x)) = 3
  /\ Len(t_args) = 8


(***************************************************************************)
(* Claims about the string interner.                                       *)
(***************************************************************************)
\* The id of a string interned at the start is its position.
Interned ==
  i_returned \cup {<<Filled(n), n>> : n \in {0, i_table.filled - 1} \cap (0..(i_table.filled - 1))}
Called == i_pc = "ready" /\ i_returned # {}
Full(table) == table_len(table) = 2 ^ 16

\* C17: Interned::new returns the same id for equal strings and different
\* ids for different strings; every id fits in 16 bits, being the position
\* of its string in the table and not that position wrapped around; and
\* once 65,536 distinct strings are interned, interning one more new string
\* returns an error and leaves the table unchanged, while the strings
\* already interned still return their ids.
C17_Interner ==
  /\ \A p \in Interned : \A q \in Interned : (p[1] = q[1]) <=> (p[2] = q[2])
  /\ \A p \in i_returned :
       /\ p[2] \in 0..(2 ^ 16 - 1)
       /\ str_to_id(i_table, p[1]) = Some(p[2])
       /\ p[1].word => i_table.more[p[2] - i_table.filled + 1] = p[1]
  /\ (Called /\ Full(i_before)) =>
       /\ i_table = i_before
       /\ IF str_to_id(i_before, i_value).some
          THEN i_result = InternOk(str_to_id(i_before, i_value).value)
          ELSE ~i_result.ok

\* The table is full and a new word was refused.
C17_Witness ==
  /\ Called /\ Full(i_before) /\ ~i_result.ok /\ i_value.word
  /\ Len(i_table.more) = 2


(***************************************************************************)
(* Claims about rules the generator is to ignore.                          *)
(***************************************************************************)
\* The rules of the nodes of a derivation, at any depth.
RECURSIVE UsedRules(_)
UsedRules(d) ==
  {d.rule} \cup UNION {IF d.children[i].leaf THEN {} ELSE UsedRules(d.children[i].node) :
                         i \in 1..Len(d.children)}
Ignored(g) == {r \in 1..Len(g.rules) : g.rules[r].split.score = NEG_INFINITY}
\* The symbols that derive a text by the rules that are not ignored.
RECURSIVE DerivingFrom(_, _)
DerivingFrom(g, seen) ==
  LET more == seen \cup {g.rules[r].lhs :
                           r \in {r \in (1..Len(g.rules)) \ Ignored(g) :
                                    \A j \in 1..Len(g.rules[r].rhs) :
                                      g.rules[r].rhs[j].kind = "Symbol"
                                        => g.rules[r].rhs[j].id \in seen}}
  IN IF more = seen THEN seen ELSE DerivingFrom(g, more)

\* C18: a rule whose split score is -inf is ignored by the generator: no
\* derivation that generate returns has, at any depth, a node of such a
\* rule, and generation does not succeed where it fails without the rule.
C18_InfiniteSplitIgnored ==
  (g_pc = "done" /\ g_result.some) =>
    /\ UsedRules(g_result.value) \cap Ignored(GenGrammar) = {}
    /\ GenGrammar.start \in DerivingFrom(GenGrammar, {})


(***************************************************************************)
(* Claims about the diff of a correction.                                  *)
(***************************************************************************)
\* The checks that failed at a path of the corrected tree (at most one).
EventsAt(events, path) == {i \in 1..Len(events) : events[i].path = path}
\* The diff the sentence on its structure gives the subtree x at path.
RECURSIVE DiffOf(_, _, _)
DiffOf(events, x, path) ==
  IF EventsAt(events, path) # {}
  THEN LET e == events[CHOOSE i \in EventsAt(events, path) : TRUE]
       IN <<Wrong(e.errors, OldMatches(e),
                  IF x.leaf THEN <<x.match>> ELSE matches(x.node))>>
  ELSE IF x.leaf THEN <<Right(x.match)>>
  ELSE Concat([i \in 1..Len(x.node.children) |->
                 DiffOf(events, x.node.children[i], Append(path, i))])

\* C19: the structure of the diff: a node whose rule fails its check gives
\* exactly one Wrong entry for its whole subtree, with all leaves of the old
\* subtree as old_matches and all leaves of the final replacement as
\* new_matches, and no entry for any descendant; a node that passes gives
\* the diffs of its children one after the other in the order of the rhs,
\* whatever the precedence; a leaf gives Right when it agrees and a Wrong of
\* one leaf otherwise.
C19_DiffStructure ==
  Corrected =>
    /\ \A i \in 1..Len(c_first.events) : Cardinality(EventsAt(c_first.events, c_first.events[i].path)) = 1
    /\ c_first.diff = DiffOf(c_first.events, ChildNode(c_first.tree), <<>>)

\* A node failed its check and a leaf below it failed its own: one entry for
\* the node; and the tree has a node whose precedence is not the rhs order.
C19_Witness ==
  /\ Corrected
  /\ \E i \in 1..Len(c_first.events) : \E j \in 1..Len(c_first.events) :
       /\ c_first.events[i].kind = "node" /\ c_first.events[j].kind = "leaf"
       /\ IsPrefix(c_first.events[i].path, c_first.events[j].path)
  /\ Len(c_first.diff) = 2
\* A node that passes, whose second child is corrected before its first.
C19_WitnessOrder ==
  /\ Corrected /\ c_first.events # <<>>
  /\ \A i \in 1..Len(c_first.events) : c_first.events[i].kind = "leaf"
  /\ \E i \in 1..Len(c_first.tree.children) :
       /\ ~c_first.tree.children[i].leaf
       /\ AgreementGrammar.rules[c_first.tree.children[i].node.rule].precedence = <<1>>


(***************************************************************************)
(* Claims about the children a rule's precedence leaves out.               *)
(***************************************************************************)
\* The nodes of the returned tree, as paths.
NodePaths ==
  {<<>>} \cup {c_first.trace[k].path : k \in {k \in 1..Len(c_first.trace) :
                 ~child_at(ChildNode(c_first.tree), c_first.trace[k].path).leaf}}

StepsAt(kind, path) ==
  {k \in 1..Len(c_first.trace) : c_first.trace[k].kind = kind /\ c_first.trace[k].path = path}
StepAt(kind, path) == CHOOSE k \in StepsAt(kind, path) : TRUE
TenseAt(kind, path) == c_first.trace[StepAt(kind, path)].tense

RuleAt(path) == AgreementGrammar.rules[child_at(ChildNode(c_first.tree), path).node.rule]
Unlisted(rule) ==
  {i \in 0..(Len(rule.rhs) - 1) : \A j \in 1..Len(rule.precedence) : rule.precedence[j] # i}

\* The context see_node is entered with, the one its children start from,
\* and the one its caller continues with.
Incoming(path) == IF path = <<>> THEN Tense_default ELSE TenseAt("enter", path)
Based(path) == union(Incoming(path), RuleAt(path).tense)
Outgoing(path) == IF path = <<>> THEN c_first.tense ELSE TenseAt("leave", path)

\* C20: non-precedence isolation: at every node every child is corrected
\* once; the precedence children come first, in order, the first from the
\* incoming context with the rule's base tense and each next one from the
\* context the one before it left; each child not in the precedence comes
\* after all of them and starts from the empty context; and the context the
\* caller continues with is the one the last precedence child left.
C20_Isolation ==
  Corrected =>
    \A path \in NodePaths :
      LET rule == RuleAt(path)
          listed == rule.precedence
          at(i) == Append(path, i + 1)
      IN /\ \A i \in 0..(Len(rule.rhs) - 1) :
              /\ Cardinality(StepsAt("enter", at(i))) = 1
              /\ Cardinality(StepsAt("leave", at(i))) = 1
         /\ \A k \in 1..Len(listed) :
              TenseAt("enter", at(listed[k])) =
                IF k = 1 THEN Based(path) ELSE TenseAt("leave", at(listed[k - 1]))
         /\ \A u \in Unlisted(rule) :
              /\ TenseAt("enter", at(u)) = Tense_default
              /\ \A k \in 1..Len(listed) : StepAt("leave", at(listed[k])) < StepAt("enter", at(u))
         /\ Outgoing(path) =
              IF listed = <<>> THEN Based(path) ELSE TenseAt("leave", at(listed[Len(listed)]))

\* A node has a child outside its precedence, which starts from the empty
\* context and leaves one that the caller, continuing with a context of its
\* own, does not see.
C20_Witness ==
  /\ Corrected
  /\ \E path \in NodePaths : \E u \in Unlisted(RuleAt(path)) :
       /\ Outgoing(path) # Tense_default
       /\ TenseAt("leave", Append(path, u + 1)) # Tense_default
       /\ union(Outgoing(path), TenseAt("leave", Append(path, u + 1))) # Outgoing(path)

(***************************************************************************)
(* Claims about the order in which terms set the tense context.            *)
(***************************************************************************)
\* The children see_node corrected in its first loop, as steps of the trace.
ListedVisits ==
  {k \in 1..Len(c_first.trace) : c_first.trace[k].kind = "enter" /\ ~c_first.trace[k].fresh}

\* Every category of tense a has the same value in tense b.
Keeps(a, b) == \A k \in DOMAIN a : k \in DOMAIN b /\ b[k] = a[k]

\* C21: earlier term wins: a category that has a value in the context when a
\* term of the precedence is visited has the same value when the visit
\* returns, and a mismatch found at the term is reported against the value
\* the context had.
C21_EarlierTermWins ==
  Corrected =>
    /\ \A k \in ListedVisits :
         Keeps(c_first.trace[k].tense, TenseAt("leave", c_first.trace[k].path))
    /\ \A i \in 1..Len(c_first.events) :
         LET e == c_first.events[i] IN
           e.path # <<>> =>
             \A j \in 1..Len(e.errors) :
               /\ e.errors[j].category \in DOMAIN TenseAt("enter", e.path)
               /\ TenseAt("enter", e.path)[e.errors[j].category] = e.errors[j].should

\* A leaf that disagreed with the context was replaced, and the context kept
\* its value.
LaterLeafCorrected ==
  /\ Corrected
  /\ \E i \in 1..Len(c_first.events) :
       /\ c_first.events[i].kind = "leaf" /\ c_first.events[i].replaced
       /\ Keeps(TenseAt("enter", c_first.events[i].path), TenseAt("leave", c_first.events[i].path))

(***************************************************************************)
(* Claims about payloads written and read back.                            *)
(***************************************************************************)
\* The strings inside a payload.
RECURSIVE StringsIn(_)
StringsIn(x) ==
  IF x.t = "String" THEN {text_chars(x)}
  ELSE UNION {StringsIn(x.c[i]) : i \in 1..Len(x.c)}

\* No character of the text is one that escape_default rewrites.
Plain(text) == \A i \in 1..Len(text) : escape_char(text[i]) = <<text[i]>>

\* C22: payload round-trip: for every non-default Lambda or Json payload x,
\* parse(stringify(x)) succeeds and equals x.
C22_PayloadRoundTrip ==
  (p_pc = "done" /\ ~empty(p_x)) =>
    /\ p_parsed.ok
    /\ eq(p_kind, p_parsed.value, p_x)

\* The round trip of a payload whose strings have no quote and no backslash.
PlainRoundTrip ==
  (p_pc = "done" /\ ~empty(p_x) /\ \A text \in StringsIn(p_x) : Plain(text)) =>
    /\ p_parsed.ok
    /\ eq(p_kind, p_parsed.value, p_x)

(***************************************************************************)
(* C23: canonical form.                                                    *)
(***************************************************************************)
\* Hash for Lambda and for Cached<T>: the bytes of repr, then the byte 0xff
\* that str::hash writes, as the hasher receives them.
hash(P, x) == [i \in 1..Len(repr(P, x)) |-> Code(repr(P, x)[i])] \o <<255>>

\* The texts of the children of x, in the order x holds them.
ChildTexts(P, x) == [i \in 1..Len(x.c) |-> repr(P, x.c[i])]

\* C23: two payloads that differ only in the order of the operands of the
\* commutative operators & and |, at any depth, or in the order of the keys
\* of dicts, have the same repr, compare equal and hash equally; the operands
\* of a join and the elements of a list keep their order, so that a payload
\* with other texts in these places has another repr.
C23_CanonicalForm ==
  p_pc \in {"parse", "done"} =>
    /\ p_y \in Shuffles(p_x) =>
         /\ p_text = p_other
         /\ eq(p_kind, p_x, p_y)
         /\ hash(p_kind, p_x) = hash(p_kind, p_y)
    /\ (p_y \in Rearranged(p_x) /\ ChildTexts(p_kind, p_y) # ChildTexts(p_kind, p_x)) =>
         /\ p_text # p_other
         /\ ~eq(p_kind, p_x, p_y)

\* Both reprs are computed for a y whose operands or keys are in another
\* order than those of x below the root.
C23_Witness ==
  /\ p_pc = "done"
  /\ p_y \in Shuffles(p_x)
  /\ \E i \in 1..Len(p_x.c) : p_y.c[i] # p_x.c[i] /\ p_y.c[i] \in Shuffles(p_x.c[i])
  /\ p_text = p_other

\* A list whose elements were exchanged has another repr.
OrderKept ==
  /\ p_pc = "done" /\ p_x.t = "List" /\ p_y \in Rearranged(p_x) /\ p_text # p_other

(***************************************************************************)
(* C24: one state per identity in a column.                                *)
(***************************************************************************)
\* The identity of a state: its rule, its cursor and its start.
Identity(p) == <<states[p].rule.rule, states[p].cursor, states[p].start>>

\* C24: at every point of a parse, the current column holds at most one
\* state per (rule, cursor, start), the predicted states at cursor 0 and the
\* start symbol's first states in column 0 included.
C24_Deduplication ==
  \A i, j \in 1..Len(column.states) :
    Identity(column.states[i]) = Identity(column.states[j]) => i = j

\* The same, for the states past cursor 0 (those made by advance_state): a
\* state found again gets one more candidate.
AdvancedOnce ==
  \A i, j \in 1..Len(column.states) :
    (states[column.states[i]].cursor > 0
       /\ Identity(column.states[i]) = Identity(column.states[j])) => i = j
FoundAgain ==
  \E i \in 1..Len(column.states) : Len(states[column.states[i]].candidate) > 1

(***************************************************************************)
(* C27: parsing terminates.                                                *)
(***************************************************************************)
\* C27: for grammars with finite merge scores, unit cycles, left recursion
\* through nullable symbols and empty right-hand sides included, every
\* column is filled and scored: no call of score_state runs without end,
\* its two assertions hold, every state of the column has a finite score,
\* and parse returns Some or None.
C27_ParsingTerminates ==
  /\ pc \in {"parse", "done"}
  /\ \A i \in 1..Len(column.states) : states[column.states[i]].score > NEG_INFINITY

\* The same for the grammars without a unit cycle.
NoUnitCycle == grammar \in {"recursive", "leftnull"}
TerminatesWithoutCycle == NoUnitCycle => C27_ParsingTerminates
RecursionParsed == NoUnitCycle /\ pc = "done" /\ result.some /\ Len(tokens) > 2

(***************************************************************************)
(* C25: the result of parse and the order of rules and of states.          *)
(***************************************************************************)
\* parse as one function: the chart is built, fed the tokens from the i-th
\* on and asked for the result; order is the order of the column worklist.
RECURSIVE feed(_, _, _, _, _)
feed(ig, c, sk, toks, i) ==
  IF c.fault # "" THEN None
  ELSE IF i > Len(toks) THEN get_result(ig, c, sk)
  ELSE feed(ig, process_token(ig, c, sk, toks[i]).c, process_token(ig, c, sk, toks[i]).sk,
            toks, i + 1)
parse_in(g, order, toks, o) == feed(index(g), Chart_in(index(g), order), Skipped_new(o), toks, 1)

\* Whether parse returned a derivation, and its score.
Outcome(g, r, toks, o) ==
  IF r.some THEN [some |-> TRUE, score |-> ParseScore(g, r.value, toks, o)]
  ELSE [some |-> FALSE, score |-> 0]

\* The same rules listed in another order: reversed, or two neighbours
\* exchanged.
Exchanged(rules, k) ==
  [i \in 1..Len(rules) |-> IF i = k THEN rules[k + 1] ELSE IF i = k + 1 THEN rules[k] ELSE rules[i]]
Listings(g) ==
  {[g EXCEPT !.rules = Reverse(g.rules)]}
    \cup {[g EXCEPT !.rules = Exchanged(g.rules, k)] : k \in 1..(Len(g.rules) - 1)}

\* Inputs of at most MaxOrdered tokens are parsed again in the other orders.
MaxOrdered == 3

\* C25: for a fixed set of rules and a fixed input, whether parse returns a
\* derivation, and the score of that derivation, depend neither on the order
\* in which the grammar lists the rules nor on the order in which the states
\* of a column are processed.
C25_OrderInvariance ==
  (pc = "done" /\ Len(tokens) <= MaxOrdered) =>
    /\ \A h \in Listings(Grammar(grammar)) :
         Outcome(h, parse_in(h, "fifo", tokens, options), tokens, options)
           = Outcome(Grammar(grammar), result, tokens, options)
    /\ Outcome(Grammar(grammar), parse_in(Grammar(grammar), "newest", tokens, options), tokens, options)
         = Outcome(Grammar(grammar), result, tokens, options)

\* The same on the grammars of the repository's tests.
TestGrammar == grammar \in {"scoring", "skipping"}
OrderInvariantInTests == TestGrammar => C25_OrderInvariance
ReorderedParse == TestGrammar /\ pc = "done" /\ result.some /\ Len(tokens) = MaxOrdered

(***************************************************************************)
(* C26: the protocol of the generator's memo.                              *)
(***************************************************************************)
MemoKey(frame) == <<frame.term, frame.value>>
\* The step opens a call of generate_from_term.
Expanding == Len(g_stack') = Len(g_stack) + 1 /\ g_stack'[Len(g_stack')].f = "memo"
\* The step is the return of generate_from_term into generate_from_memo.
Expanded == g_stack # <<>> /\ Top(GenState).f = "memo" /\ g_stack' = Pop(GenState)
\* The step is a call of generate_from_memo.
Asking ==
  /\ g_pc = "run" /\ g_stack # <<>> /\ Top(GenState).f = "rule" /\ ~g_ret.pending
  /\ Top(GenState).at <= Len(Top(GenState).candidates)
  /\ Len(Top(GenState).children) < Len(GenGrammar.rules[Top(GenState).rule].rhs)

MemoProtocol ==
  /\ \A k \in DOMAIN g_memo : k \in DOMAIN g_memo'
  /\ Expanding =>
       /\ Asking
       /\ Requested \notin DOMAIN g_memo
       /\ MemoKey(g_stack'[Len(g_stack')]) = Requested
       /\ g_memo' = Put(g_memo, Requested, None)
  /\ Expanded =>
       /\ g_memo[MemoKey(Top(GenState))] = None
       /\ g_ret'.pending
       /\ g_memo' = Put(g_memo, MemoKey(Top(GenState)), g_ret'.tree)
  /\ (Asking /\ Requested \in DOMAIN g_memo) =>
       /\ g_ret' = Return(g_memo[Requested])
       /\ g_memo' = g_memo
       /\ g_stack' = g_stack
  /\ g_memo' # g_memo => Expanding \/ Expanded
  /\ \A k \in DOMAIN g_given : k \in DOMAIN g_memo /\ g_memo'[k] = g_given[k]

\* C26: during one call of generate_from_rules, a key that is not in the
\* memo given to the call is expanded at most once (an expansion starts only
\* for a key absent from the memo, and keys never leave it); the sentinel
\* None is stored before the expansion and replaced by the result after it;
\* a later lookup returns what the memo holds; a key given with the memo is
\* never expanded and keeps the subtree it came with.
C26_MemoProtocol == [][MemoProtocol]_vars

\* A lookup has just returned the subtree given with the memo, in a call
\* that has also expanded a key of its own and stored the result.
C26_Witness ==
  /\ g_pc = "run" /\ g_stack # <<>> /\ Top(GenState).f = "rule" /\ g_ret.pending
  /\ Requested \in DOMAIN g_given
  /\ g_ret.tree = g_given[Requested]
  /\ \E k \in DOMAIN g_memo : k \notin DOMAIN g_given /\ g_memo[k].some

(***************************************************************************)
(* C28: the diff covers the leaves.                                        *)
(***************************************************************************)
\* The old leaves and the new leaves of a diff, entry by entry.
OldLeaves(diff) ==
  Concat([i \in 1..Len(diff) |-> IF diff[i].right THEN <<diff[i].match>> ELSE diff[i].old_matches])
NewLeaves(diff) ==
  Concat([i \in 1..Len(diff) |-> IF diff[i].right THEN <<diff[i].match>> ELSE diff[i].new_matches])
Covers(correction, tree) ==
  /\ OldLeaves(correction.diff) = matches(tree)
  /\ NewLeaves(correction.diff) = matches(correction.tree)

\* C28: the diff returned by correct covers each leaf once and in order: the
\* old leaves of its entries, in order, are the leaves of the input tree, and
\* the new leaves are the leaves of the returned tree.
C28_DiffCoverage ==
  /\ (c_pc \in {"second", "done"} /\ ~c_first.panicked) => Covers(c_first, c_tree)
  /\ (c_pc = "done" /\ ~c_second.panicked) => Covers(c_second, c_first.tree)

\* A diff with a leaf that was right, and an entry of several leaves for a
\* node that was regenerated with other leaves.
C28_Witness ==
  /\ c_pc = "done" /\ ~c_first.panicked
  /\ \E i \in 1..Len(c_first.diff) : c_first.diff[i].right
  /\ \E i \in 1..Len(c_first.diff) :
       /\ ~c_first.diff[i].right
       /\ Len(c_first.diff[i].old_matches) > 1
       /\ c_first.diff[i].new_matches # c_first.diff[i].old_matches

(***************************************************************************)
(* C29: correction keeps the value of the root.                            *)
(***************************************************************************)
SameValue(correction, tree) == eq("json", correction.tree.value, tree.value)

\* C29: the payload value at the root of the tree returned by correct equals
\* the payload value at the root of the input tree, whether the root or a
\* descendant was kept, had leaves replaced or was regenerated.
C29_ValuePreserved ==
  /\ (c_pc \in {"second", "done"} /\ ~c_first.panicked) => SameValue(c_first, c_tree)
  /\ (c_pc = "done" /\ ~c_second.panicked) => SameValue(c_second, c_first.tree)

\* The root was regenerated with other leaves.
RootRegenerated(correction, tree) ==
  \E i \in 1..Len(correction.events) :
    /\ correction.events[i].kind = "node" /\ correction.events[i].path = <<>>
    /\ correction.events[i].replaced
    /\ matches(correction.tree) # matches(tree)
\* A leaf below the root was replaced.
LeafReplaced(correction) ==
  \E i \in 1..Len(correction.events) :
    correction.events[i].kind = "leaf" /\ correction.events[i].replaced

C29_Witness ==
  /\ c_pc = "done" /\ ~c_first.panicked
  /\ RootRegenerated(c_first, c_tree)
  /\ ~empty(c_tree.value)
LeavesReplaced == c_pc = "done" /\ ~c_first.panicked /\ LeafReplaced(c_first)

\* The same for the trees whose root is not the phrasing that is regenerated
\* through the template [$0, $0].
RootGenerated == c_tree.rule # Len(AgreementGrammar.rules)
ValueKeptOtherwise == RootGenerated => C29_ValuePreserved
NodeRegenerated ==
  /\ c_pc = "done" /\ ~c_first.panicked /\ RootGenerated
  /\ \E i \in 1..Len(c_first.events) :
       c_first.events[i].kind = "node" /\ c_first.events[i].replaced
  /\ matches(c_first.tree) # matches(c_tree)

(***************************************************************************)
(* C30: union_checked extends self.                                        *)
(***************************************************************************)
\* C30: whenever union_checked returns the empty list, every category that
\* self had keeps its value, every candidate that agreed with self before
\* the call agrees with self after it, and a second call with the same
\* candidates returns the empty list and leaves self as it is.
C30_UnionExtends ==
  (u_pc = "done" /\ u_errors = <<>>) =>
    /\ \A k \in DOMAIN u_given : k \in DOMAIN u_self /\ u_self[k] = u_given[k]
    /\ \A i \in 1..Len(u_others) : agree(u_given, u_others[i]) => agree(u_self, u_others[i])
    /\ union_checked(u_self, u_others) = [tense |-> u_self, errors |-> <<>>]

\* Two candidates agreed, with different values somewhere, and self got a
\* category from them.
C30_Witness ==
  /\ u_pc = "done" /\ u_errors = <<>>
  /\ Len(u_others) = 2 /\ u_others[1] # u_others[2]
  /\ agree(u_given, u_others[1]) /\ agree(u_given, u_others[2])
  /\ ~agree(u_others[1], u_others[2])
  /\ u_self # u_given

====
